---- MODULE Spec2Model ----
(***************************************************************************)
(* OrbitShell: the sidebar's cancellable file search (SidebarView),        *)
(* the line editors (TextEditState and the command input of TabView),      *)
(* the command history and the suggestion engine (TabView).                *)
(*                                                                         *)
(* Text is a sequence of Unicode scalars; a scalar is a one-element        *)
(* string token ("a", " ", "/").                                           *)
(***************************************************************************)
EXTENDS Integers, Sequences, FiniteSets, TLC

(***************************************************************************)
(* Generic helpers over sequences.                                         *)
(***************************************************************************)
\* Option<T>: None is the empty tuple, Some(x) the one-element tuple
None == <<>>

Some(x) == <<x>>

Min(a, b) == IF a <= b THEN a ELSE b

Max(a, b) == IF a >= b THEN a ELSE b

Take(s, n) == SubSeq(s, 1, Min(n, Len(s)))

Drop(s, n) == SubSeq(s, n + 1, Len(s))

Range(s) == {s[i] : i \in 1..Len(s)}

Reverse(s) == [i \in 1..Len(s) |-> s[Len(s) + 1 - i]]

StartsWith(s, p) == Len(p) <= Len(s) /\ SubSeq(s, 1, Len(p)) = p

EndsWith(s, p) == Len(p) <= Len(s) /\ SubSeq(s, Len(s) - Len(p) + 1, Len(s)) = p

Contains(hay, needle) ==
    \E i \in 0..(Len(hay) - Len(needle)) : SubSeq(hay, i + 1, i + Len(needle)) = needle

IsWhitespace(ch) == ch \in {" ", "\t"}

RECURSIVE TrimStart(_)
TrimStart(s) ==
    IF s # <<>> /\ IsWhitespace(Head(s)) THEN TrimStart(Tail(s)) ELSE s

RECURSIVE TrimEnd(_)
TrimEnd(s) ==
    IF s # <<>> /\ IsWhitespace(s[Len(s)]) THEN TrimEnd(SubSeq(s, 1, Len(s) - 1)) ELSE s

Trim(s) == TrimEnd(TrimStart(s))

(* str::to_ascii_lowercase maps only A-Z; str::to_lowercase also maps the  *)
(* non-ASCII capitals (here the scalar "E'" stands for U+00C9).            *)
\* u8::to_ascii_lowercase on each scalar
AsciiLowerCh(ch) ==
    CASE ch = "A" -> "a" [] ch = "B" -> "b" [] ch = "C" -> "c" [] ch = "D" -> "d" [] ch = "E" -> "e"
      [] ch = "F" -> "f" [] ch = "G" -> "g" [] ch = "H" -> "h" [] ch = "I" -> "i" [] ch = "J" -> "j"
      [] ch = "K" -> "k" [] ch = "L" -> "l" [] ch = "M" -> "m" [] ch = "N" -> "n" [] ch = "O" -> "o"
      [] ch = "P" -> "p" [] ch = "Q" -> "q" [] ch = "R" -> "r" [] ch = "S" -> "s" [] ch = "T" -> "t"
      [] ch = "U" -> "u" [] ch = "V" -> "v" [] ch = "W" -> "w" [] ch = "X" -> "x" [] ch = "Y" -> "y"
      [] ch = "Z" -> "z"
      [] OTHER -> ch

LowerCh(ch) == IF ch = "E'" THEN "e'" ELSE AsciiLowerCh(ch)

to_ascii_lowercase(s) == [i \in 1..Len(s) |-> AsciiLowerCh(s[i])]

to_lowercase(s) == [i \in 1..Len(s) |-> LowerCh(s[i])]

(***************************************************************************)
(* Bounds.                                                                 *)
(***************************************************************************)
MaxGen == 2

MaxLimit == 27

\* longest text that typing may produce in an edited field
MaxLen == 3

(***************************************************************************)
(* Program constants.                                                      *)
(***************************************************************************)
BatchSize == 25

PeekBytes == 512

VARIABLES
    \* the view that has the keyboard focus
    focus,
    \* SidebarView: mode and the search box (edited through TextEditState)
    mode, search_query, search_cursor, search_selection, search_anchor,
    \* SidebarView: search state
    search_generation, search_cancel, search_pending,
    search_results, rules,
    \* one worker thread, channel and consumer task per run_search call
    worker, chan, consumer,
    \* the directory tree under current_path
    fs,
    \* TabView: the fields of the view, as a record
    tab,
    \* the lines of the application log orbitshell/history.txt
    history_log,
    \* PATH and the executables found on it
    path_env,
    \* what git reports for the working directory (None outside a repository)
    git_repo,
    \* the bytes the last handler wrote to the pty, the events it emitted
    pty_out, emitted,
    \* the commands passed to push_history since startup, oldest first
    pushed,
    \* a prompt line has been recognized since the last command was submitted
    prompt_seen,
    \* strip_ansi: its argument and (once it has returned) its result
    ansi_input, ansi_output,
    \* a TerminalBuffer, and the lines fed to it since it was made
    buffer, fed,
    \* a TerminalParser, the bytes it still has to process and the calls it
    \* has made on its SemanticPerformer
    parser, parser_data, performed,
    \* the outcome of creating a terminal session
    session,
    \* the entries stored in orbitshell/recent.json, and the list the last
    \* add_recent returned (shown by every tab)
    recent_file, recent,
    \* the number of add_recent calls so far
    opened,
    \* the TabBar and the Workspace that listens to its events
    tab_bar, workspace,
    \* the output of the shell that the reader of the pty has not handed to
    \* append_output yet, and the view as it would be had the whole output
    \* come as one chunk
    stream, whole,
    \* the reader thread of the pty, its channel and the task that receives
    \* from it, as a record
    reader

searchVars == <<search_generation, search_cancel, search_pending,
                search_results, rules, worker, chan, consumer, fs>>

boxVars == <<mode, search_query, search_cursor, search_selection, search_anchor>>

tabVars == <<tab, history_log, path_env, git_repo, pty_out, emitted, pushed, prompt_seen>>

termVars == <<ansi_input, ansi_output, buffer, fed, parser, parser_data, performed, session>>

shellVars == <<recent_file, recent, opened, tab_bar, workspace, stream, whole, reader>>

vars == <<focus, boxVars, searchVars, tabVars, termVars, shellVars>>

\* strip_ansi is not running
StripIdle == ansi_input = <<>> /\ ansi_output = None

\* no TerminalBuffer has been made
BufferIdle == buffer = None /\ fed = <<>>

\* no TerminalParser has been made
ParserIdle == parser = None /\ parser_data = <<>> /\ performed = <<>>

\* no session is being created
SessionIdle == session = None

\* no terminal has been started: there is no reader thread, no channel and
\* no receiving task.  sent and applied are history fields: the chunks the
\* thread has sent and those handed to append_output, in their order
NoReader ==
    [pc |-> "none", chan |-> <<>>, consumer |-> "none", view |-> TRUE,
     sent |-> <<>>, applied |-> <<>>]

\* no repository has been opened, and the tab strip and the cutting of
\* the output into chunks are not looked at
ShellIdle ==
    /\ recent_file = <<>> /\ recent = <<>> /\ opened = 0
    /\ tab_bar = None /\ workspace = None
    /\ stream = <<>> /\ whole = None /\ reader = NoReader

TermIdle == StripIdle /\ BufferIdle /\ ParserIdle /\ SessionIdle

(***************************************************************************)
(* The file system seen by the walk.  A node is a directory entry:         *)
(* name, is_dir, ok (read_dir / File::open succeeds), size in bytes, nul   *)
(* (a zero byte among the first 512 bytes), lines, children.               *)
(***************************************************************************)
FileNode(name, ok, size, nul, lines) ==
    [name |-> name, is_dir |-> FALSE, ok |-> ok, size |-> size, nul |-> nul,
     lines |-> lines, children |-> <<>>]

DirNode(name, ok, children) ==
    [name |-> name, is_dir |-> TRUE, ok |-> ok, size |-> 0, nul |-> FALSE,
     lines |-> <<>>, children |-> children]

ManyLines == [i \in 1..(BatchSize + 1) |-> <<"a">>]

\* a tree with a skipped directory, a nested directory, an unreadable
\* directory, a binary file, an oversized file and a skipped file
TreeSmall ==
    DirNode(<<>>, TRUE,
        << FileNode(<<"a">>, TRUE, 10, FALSE, << <<"b">>, <<"x", "A">> >>),
           DirNode(<<"T">>, TRUE, << FileNode(<<"a">>, TRUE, 10, FALSE, << <<"a">> >>) >>),
           DirNode(<<"d">>, TRUE,
               << FileNode(<<"A", "b">>, TRUE, 10, FALSE, << <<"a">> >>),
                  FileNode(<<"n">>, TRUE, 10, TRUE, << <<"a">> >>) >>),
           FileNode(<<"g">>, TRUE, 2000, FALSE, << <<"a">> >>),
           FileNode(<<"B">>, TRUE, 10, FALSE, << <<"a">> >>),
           DirNode(<<"u">>, FALSE, << FileNode(<<"a">>, TRUE, 10, FALSE, <<>>) >>) >>)

\* one file whose every line matches: more than one full batch
TreeManyLines ==
    DirNode(<<>>, TRUE, << FileNode(<<"a">>, TRUE, 10, FALSE, ManyLines) >>)

\* a directory whose name contains the query, holding one file
TreeDirMatch ==
    DirNode(<<>>, TRUE,
        << DirNode(<<"x", "A">>, TRUE, << FileNode(<<"b">>, TRUE, 10, FALSE, << <<"b">> >>) >>) >>)

Trees == {TreeSmall, TreeManyLines, TreeDirMatch}

Queries == {<<>>, <<" ">>, <<" ", "A">>}

SearchLimits == {0, 1, 2, MaxLimit}

(***************************************************************************)
(* OrbitshellRules: load_rules / normalize_rules                           *)
(***************************************************************************)
normalize_rules(r) ==
    [r EXCEPT !.skip_dirs = [i \in 1..Len(r.skip_dirs) |-> to_lowercase(r.skip_dirs[i])],
              !.skip_files = [i \in 1..Len(r.skip_files) |-> to_lowercase(r.skip_files[i])]]

\* the parsed orbitshell_rules.json files considered
RuleFiles ==
    {[skip_dirs |-> << <<"T">> >>, skip_files |-> << <<"b">> >>, max_file_kb |-> 1,
      search_limit |-> l] : l \in SearchLimits}

load_rules(parsed) == normalize_rules(parsed)

\* should_skip_dir that compares the name as it is spelled
should_skip_dir_AsSpelled(name, r) ==
    \E i \in 1..Len(r.skip_dirs) : r.skip_dirs[i] = name

should_skip_dir(name, r) ==
    \E i \in 1..Len(r.skip_dirs) : r.skip_dirs[i] = to_lowercase(name)

should_skip_file(name, r) ==
    \E i \in 1..Len(r.skip_files) : r.skip_files[i] = to_lowercase(name)


(***************************************************************************)
(* TextEditState (text_edit.rs): the editing primitives shared by the      *)
(* search boxes and the tab rename field.  An editor is the record         *)
(* [text, cursor, selection, anchor]; positions count Unicode scalars.     *)
(***************************************************************************)
Editor(text, cursor, selection, anchor) ==
    [text |-> text, cursor |-> cursor, selection |-> selection, anchor |-> anchor]

TextEditState_select_all(ed) ==
    LET len == Len(ed.text) IN
    [ed EXCEPT !.selection = Some(<<0, len>>), !.anchor = Some(0), !.cursor = len]

TextEditState_normalized_selection(selection) ==
    IF selection = None THEN None
    ELSE LET a == selection[1][1]
             b == selection[1][2]
         IN IF a <= b THEN Some(<<a, b>>) ELSE Some(<<b, a>>)

TextEditState_has_selection(selection) ==
    LET n == TextEditState_normalized_selection(selection) IN
    n # None /\ n[1][1] # n[1][2]

TextEditState_clear_selection(ed) == [ed EXCEPT !.selection = None, !.anchor = None]

TextEditState_set_selection_from_anchor(ed, anchor, cursor) ==
    [ed EXCEPT !.anchor = Some(anchor), !.selection = Some(<<anchor, cursor>>)]

\* (left, right): the scalars with index < cursor, and the others
TextEditState_split_at_cursor(text, cursor) == <<Take(text, cursor), Drop(text, Min(cursor, Len(text)))>>

\* the text without the scalars of index a..b-1
RemoveRange(text, a, b) == Take(text, a) \o Drop(text, Min(b, Len(text)))

\* returns [ed, ret]: the editor afterwards and the returned bool
TextEditState_delete_selection_if_any(ed) ==
    LET n == TextEditState_normalized_selection(ed.selection) IN
    IF n = None THEN [ed |-> ed, ret |-> FALSE]
    ELSE IF n[1][1] = n[1][2] THEN [ed |-> ed, ret |-> FALSE]
    ELSE [ed |-> TextEditState_clear_selection(
                    [ed EXCEPT !.text = RemoveRange(ed.text, n[1][1], n[1][2]),
                               !.cursor = n[1][1]]),
          ret |-> TRUE]

TextEditState_insert_text(ed0, insert) ==
    LET ed == TextEditState_delete_selection_if_any(ed0).ed
        parts == TextEditState_split_at_cursor(ed.text, ed.cursor)
        out == parts[1] \o insert \o parts[2]
        max == Len(out)
    IN TextEditState_clear_selection(
           [ed EXCEPT !.text = out, !.cursor = Min(ed.cursor + Len(insert), max)])

\* the text without the scalar of index cursor-1 (if there is one)
RemoveBefore(text, cursor) ==
    IF cursor >= 1 /\ cursor <= Len(text)
    THEN Take(text, cursor - 1) \o Drop(text, cursor)
    ELSE text

\* pop_char_before_cursor without `*cursor = cursor.saturating_sub(1)`
TextEditState_pop_char_before_cursor_KeepsCursor(ed) ==
    IF ed.cursor = 0 THEN ed
    ELSE TextEditState_clear_selection([ed EXCEPT !.text = RemoveBefore(ed.text, ed.cursor)])

TextEditState_pop_char_before_cursor(ed) ==
    IF ed.cursor = 0 THEN ed
    ELSE TextEditState_clear_selection(
             [ed EXCEPT !.text = RemoveBefore(ed.text, ed.cursor),
                        !.cursor = Max(ed.cursor - 1, 0)])

(***************************************************************************)
(* SidebarView: the search box (sidebar_view.rs, on_key_down).             *)
(***************************************************************************)
SearchBox == Editor(search_query, search_cursor, search_selection, search_anchor)

SetSearchBox(ed) ==
    /\ search_query' = ed.text
    /\ search_cursor' = ed.cursor
    /\ search_selection' = ed.selection
    /\ search_anchor' = ed.anchor

BoxInit ==
    /\ mode = "Explorer"
    /\ search_query = <<>>
    /\ search_cursor = 0
    /\ search_selection = None
    /\ search_anchor = None

\* set_mode (lines 150-161)
set_mode(m) ==
    /\ mode' = m
    /\ IF m = "Search"
       THEN /\ search_selection' = None
            /\ search_anchor' = None
            /\ search_cursor' = Len(search_query)
            /\ UNCHANGED search_query
       ELSE UNCHANGED <<search_query, search_cursor, search_selection, search_anchor>>

\* SidebarView::on_key_down (lines 327-473) on the search box ed, for the
\* keys other than Enter (Enter calls run_search, see RunSearch).  ev is
\* the key event [key, key_char, ctrl, shift].
SidebarBackspace(ed) ==
    LET del == TextEditState_delete_selection_if_any(ed) IN
    IF del.ret THEN del.ed
    ELSE IF del.ed.cursor > 0 THEN TextEditState_pop_char_before_cursor(del.ed)
    ELSE del.ed

SidebarLeft(ed, shift) ==
    IF shift
    THEN LET anchor == IF ed.anchor = None THEN ed.cursor ELSE ed.anchor[1]
             cur == Max(ed.cursor - 1, 0)
         IN TextEditState_set_selection_from_anchor([ed EXCEPT !.cursor = cur], anchor, cur)
    ELSE LET n == TextEditState_normalized_selection(ed.selection)
             cur == IF TextEditState_has_selection(ed.selection)
                    THEN Min(n[1][1], n[1][2])
                    ELSE Max(ed.cursor - 1, 0)
         IN TextEditState_clear_selection([ed EXCEPT !.cursor = cur])

SidebarRight(ed, shift) ==
    LET max == Len(ed.text) IN
    IF shift
    THEN LET anchor == IF ed.anchor = None THEN ed.cursor ELSE ed.anchor[1]
             cur == Min(ed.cursor + 1, max)
         IN TextEditState_set_selection_from_anchor([ed EXCEPT !.cursor = cur], anchor, cur)
    ELSE IF TextEditState_has_selection(ed.selection)
    THEN LET n == TextEditState_normalized_selection(ed.selection) IN
         TextEditState_clear_selection([ed EXCEPT !.cursor = Max(n[1][1], n[1][2])])
    ELSE IF ed.cursor < max THEN [ed EXCEPT !.cursor = ed.cursor + 1]
    ELSE ed

SidebarDefault(ed, ev) ==
    IF ev.key_char # None
    THEN IF ev.key_char[1] # <<>> /\ ~ev.ctrl
         THEN TextEditState_insert_text(ed, ev.key_char[1]) ELSE ed
    ELSE IF ev.key \in {"a", "b", "/", "."} /\ ~ev.ctrl
    THEN TextEditState_insert_text(ed, <<ev.key>>)
    ELSE ed

Sidebar_on_key_down(m, ed, ev) ==
    IF m # "Search" THEN ed
    ELSE IF ev.ctrl /\ ev.key \in {"a", "A"} THEN TextEditState_select_all(ed)
    ELSE IF ev.key = "backspace" THEN SidebarBackspace(ed)
    ELSE IF ev.key \in {"left", "arrowleft"} THEN SidebarLeft(ed, ev.shift)
    ELSE IF ev.key \in {"right", "arrowright"} THEN SidebarRight(ed, ev.shift)
    ELSE IF ev.key = "home" THEN TextEditState_clear_selection([ed EXCEPT !.cursor = 0])
    ELSE IF ev.key = "end"
    THEN TextEditState_clear_selection([ed EXCEPT !.cursor = Len(ed.text)])
    ELSE IF ev.key = "escape" THEN TextEditState_clear_selection(ed)
    ELSE SidebarDefault(ed, ev)

(***************************************************************************)
(* Scalars: code points (for the byte-wise order of Rust strings) and      *)
(* character classes.                                                      *)
(***************************************************************************)
CodePoint(ch) ==
    CASE ch = "NUL" -> 0 [] ch = "BEL" -> 7 [] ch = "\t" -> 9 [] ch = "\n" -> 10
      [] ch = "\r" -> 13 [] ch = "ESC" -> 27 [] ch = " " -> 32 [] ch = "$" -> 36
      [] ch = "-" -> 45 [] ch = "." -> 46 [] ch = "/" -> 47 [] ch = "0" -> 48
      [] ch = "1" -> 49 [] ch = "2" -> 50 [] ch = "3" -> 51 [] ch = "4" -> 52
      [] ch = "5" -> 53 [] ch = "6" -> 54 [] ch = "7" -> 55 [] ch = "8" -> 56
      [] ch = "9" -> 57 [] ch = ":" -> 58 [] ch = ";" -> 59 [] ch = ">" -> 62
      [] ch = "@" -> 64 [] ch = "A" -> 65 [] ch = "B" -> 66 [] ch = "C" -> 67
      [] ch = "D" -> 68 [] ch = "E" -> 69 [] ch = "F" -> 70 [] ch = "G" -> 71
      [] ch = "H" -> 72 [] ch = "I" -> 73 [] ch = "J" -> 74 [] ch = "K" -> 75
      [] ch = "L" -> 76 [] ch = "M" -> 77 [] ch = "N" -> 78 [] ch = "O" -> 79
      [] ch = "P" -> 80 [] ch = "Q" -> 81 [] ch = "R" -> 82 [] ch = "S" -> 83
      [] ch = "T" -> 84 [] ch = "U" -> 85 [] ch = "V" -> 86 [] ch = "W" -> 87
      [] ch = "X" -> 88 [] ch = "Y" -> 89 [] ch = "Z" -> 90 [] ch = "[" -> 91
      [] ch = "\\" -> 92 [] ch = "]" -> 93 [] ch = "_" -> 95 [] ch = "a" -> 97
      [] ch = "b" -> 98 [] ch = "c" -> 99 [] ch = "d" -> 100 [] ch = "e" -> 101
      [] ch = "f" -> 102 [] ch = "g" -> 103 [] ch = "h" -> 104 [] ch = "i" -> 105
      [] ch = "j" -> 106 [] ch = "k" -> 107 [] ch = "l" -> 108 [] ch = "m" -> 109
      [] ch = "n" -> 110 [] ch = "o" -> 111 [] ch = "p" -> 112 [] ch = "q" -> 113
      [] ch = "r" -> 114 [] ch = "s" -> 115 [] ch = "t" -> 116 [] ch = "u" -> 117
      [] ch = "v" -> 118 [] ch = "w" -> 119 [] ch = "x" -> 120 [] ch = "y" -> 121
      [] ch = "z" -> 122 [] ch = "~" -> 126 [] ch = "E'" -> 201 [] ch = "e'" -> 233
      [] OTHER -> 0

\* char::is_alphanumeric
IsAlphanumeric(ch) ==
    LET c == CodePoint(ch) IN
    \/ c \in 48..57 \/ c \in 65..90 \/ c \in 97..122 \/ c \in {201, 233}

\* the order of str: lexicographic by code point (UTF-8 bytes order alike)
RECURSIVE StrLess(_, _)
StrLess(x, y) ==
    IF y = <<>> THEN FALSE
    ELSE IF x = <<>> THEN TRUE
    ELSE IF CodePoint(Head(x)) # CodePoint(Head(y)) THEN CodePoint(Head(x)) < CodePoint(Head(y))
    ELSE StrLess(Tail(x), Tail(y))

\* slice::sort_by(|a, b| key(a).cmp(key(b))) on records with a display
\* field: a stable insertion sort
RECURSIVE InsertByDisplay(_, _)
InsertByDisplay(sorted, item) ==
    IF sorted = <<>> THEN <<item>>
    ELSE IF StrLess(item.display, Head(sorted).display)
    THEN <<item>> \o sorted
    ELSE <<Head(sorted)>> \o InsertByDisplay(Tail(sorted), item)

RECURSIVE SortByDisplay(_)
SortByDisplay(items) ==
    IF items = <<>> THEN <<>>
    ELSE InsertByDisplay(SortByDisplay(SubSeq(items, 1, Len(items) - 1)), items[Len(items)])

\* str::split_whitespace().last()
RECURSIVE LastWord(_)
LastWord(s) ==
    IF s = <<>> \/ IsWhitespace(s[Len(s)]) THEN <<>>
    ELSE Append(LastWord(SubSeq(s, 1, Len(s) - 1)), s[Len(s)])

LastToken(s) == LastWord(TrimEnd(s))

(***************************************************************************)
(* TabView (tab_view.rs): the command input.  The view is the record tab;  *)
(* the operators below take a view t and give the view afterwards.         *)
(***************************************************************************)
HistoryCap == 2000

HistoryMenuSize == 8

SuggestionItem(display, insert, source) ==
    [display |-> display, insert |-> insert, source |-> source]

has_selection(t) == t.selection # None /\ t.selection[1][1] # t.selection[1][2]

normalized_selection(t) ==
    IF t.selection = None THEN None
    ELSE LET a == t.selection[1][1]
             b == t.selection[1][2]
         IN IF a <= b THEN Some(<<a, b>>) ELSE Some(<<b, a>>)

clear_selection(t) == [t EXCEPT !.selection = None, !.selection_anchor = None]

set_selection_from_anchor(t, anchor, cursor) ==
    [t EXCEPT !.selection_anchor = Some(anchor), !.selection = Some(<<anchor, cursor>>)]

\* returns [t, ret]
delete_selection_if_any(t) ==
    LET n == normalized_selection(t) IN
    IF n = None THEN [t |-> t, ret |-> FALSE]
    ELSE IF n[1][1] = n[1][2] THEN [t |-> t, ret |-> FALSE]
    ELSE [t |-> clear_selection([t EXCEPT !.input = RemoveRange(t.input, n[1][1], n[1][2]),
                                           !.cursor = n[1][1]]),
          ret |-> TRUE]

split_at_cursor(t) == <<Take(t.input, t.cursor), Drop(t.input, Min(t.cursor, Len(t.input)))>>

prefix_at_cursor(t) == split_at_cursor(t)[1]

current_token(t) == LastToken(prefix_at_cursor(t))

is_path_token(token) ==
    /\ token # <<>>
    /\ \/ StartsWith(token, <<".", "/">>)
       \/ StartsWith(token, <<".", ".", "/">>)
       \/ StartsWith(token, <<"~">>)
       \/ StartsWith(token, <<".", "\\">>)
       \/ StartsWith(token, <<".", ".", "\\">>)
       \/ Contains(token, <<"/">>)
       \/ Contains(token, <<"\\">>)
       \/ (Len(token) >= 3 /\ token[2] = ":" /\ token[3] \in {"\\", "/"})
       \/ StartsWith(token, <<"\\", "\\">>)

is_command_context(t) ==
    LET token == current_token(t) IN
    IF token = <<>> THEN FALSE
    ELSE IF is_path_token(token) THEN FALSE
    ELSE TrimStart(prefix_at_cursor(t)) = token

is_word_char(ch) == IsAlphanumeric(ch) \/ ch \in {"_", "-", "."}

\* while i > 0 && chars[i - 1].is_whitespace() { i -= 1 }
RECURSIVE SkipSpaceLeft(_, _)
SkipSpaceLeft(chars, i) ==
    IF i > 0 /\ IsWhitespace(chars[i]) THEN SkipSpaceLeft(chars, i - 1) ELSE i

\* while i > 0 && is_word_char(chars[i - 1]) { i -= 1 }
RECURSIVE SkipWordLeft(_, _)
SkipWordLeft(chars, i) ==
    IF i > 0 /\ is_word_char(chars[i]) THEN SkipWordLeft(chars, i - 1) ELSE i

\* while i < n && chars[i].is_whitespace() { i += 1 }
RECURSIVE SkipSpaceRight(_, _)
SkipSpaceRight(chars, i) ==
    IF i < Len(chars) /\ IsWhitespace(chars[i + 1]) THEN SkipSpaceRight(chars, i + 1) ELSE i

\* while i < n && is_word_char(chars[i]) { i += 1 }
RECURSIVE SkipWordRight(_, _)
SkipWordRight(chars, i) ==
    IF i < Len(chars) /\ is_word_char(chars[i + 1]) THEN SkipWordRight(chars, i + 1) ELSE i

move_word_left(t, from) ==
    IF from = 0 THEN 0
    ELSE SkipWordLeft(t.input, SkipSpaceLeft(t.input, from))

move_word_right(t, from) ==
    IF from >= Len(t.input) THEN Len(t.input)
    ELSE SkipWordRight(t.input, SkipSpaceRight(t.input, from))

\* insert_text that leaves the cursor at the end of the input
insert_text_CursorAtEnd(t0, text) ==
    LET t == delete_selection_if_any(t0).t
        parts == << Take(t.input, t.cursor), Drop(t.input, Min(t.cursor, Len(t.input))) >>
        out == parts[1] \o text \o parts[2]
    IN [t EXCEPT !.input = out, !.cursor = Len(out), !.selection_anchor = None]

insert_text(t0, text) ==
    LET t == delete_selection_if_any(t0).t
        parts == << Take(t.input, t.cursor), Drop(t.input, Min(t.cursor, Len(t.input))) >>
        out == parts[1] \o text \o parts[2]
    IN [t EXCEPT !.input = out,
                 !.cursor = Min(t.cursor + Len(text), Len(out)),
                 !.selection_anchor = None]

pop_char_before_cursor(t) ==
    IF t.cursor = 0 THEN t
    ELSE [t EXCEPT !.input = RemoveBefore(t.input, t.cursor),
                   !.cursor = Max(t.cursor - 1, 0),
                   !.selection_anchor = None]

move_cursor_left(t) == IF t.cursor > 0 THEN [t EXCEPT !.cursor = t.cursor - 1] ELSE t

move_cursor_right(t) ==
    IF t.cursor < Len(t.input) THEN [t EXCEPT !.cursor = t.cursor + 1] ELSE t

\* select_all_input that leaves the cursor where it is
select_all_input_KeepsCursor(t) ==
    IF t.input = <<>> THEN t
    ELSE [t EXCEPT !.selection = Some(<<0, Len(t.input)>>),
                   !.selection_anchor = Some(0),
                   !.history_open = FALSE]

select_all_input(t) ==
    IF t.input = <<>> THEN t
    ELSE [t EXCEPT !.selection = Some(<<0, Len(t.input)>>),
                   !.selection_anchor = Some(0),
                   !.cursor = Len(t.input),
                   !.history_open = FALSE]


(***************************************************************************)
(* TabView: history menu and suggestions.  e is what the handler reads     *)
(* from the environment: e.elapsed (60 s have passed since last_path_scan),*)
(* e.path_var and e.path_bins (PATH and the executables found on it).      *)
(***************************************************************************)
HistoryItem(cmd) == SuggestionItem(cmd, cmd, "History")

\* the history entries that extend prefix, front to back
HistoryMatches(history, prefix) ==
    LET Match(cmd) == StartsWith(cmd, prefix) /\ cmd # prefix IN SelectSeq(history, Match)

MapHistoryItems(cmds) == [i \in 1..Len(cmds) |-> HistoryItem(cmds[i])]

refresh_history_menu(t) ==
    IF ~t.history_open THEN t
    ELSE LET items == MapHistoryItems(Take(HistoryMatches(t.history, prefix_at_cursor(t)),
                                           HistoryMenuSize))
         IN IF items = <<>>
            THEN [t EXCEPT !.history_items = items, !.history_open = FALSE]
            ELSE [t EXCEPT !.history_items = items,
                           !.history_index = Min(t.history_index, Len(items) - 1)]

\* open_or_step_history that steps up without the min of line 1373
open_or_step_history_NoMin(t, up) ==
    IF ~t.history_open
    THEN [refresh_history_menu([t EXCEPT !.history_open = TRUE]) EXCEPT !.history_index = 0]
    ELSE IF t.history_items = <<>> THEN [t EXCEPT !.history_open = FALSE]
    ELSE IF up
    THEN [t EXCEPT !.history_index = t.history_index + 1]
    ELSE IF t.history_index = 0 THEN [t EXCEPT !.history_open = FALSE]
    ELSE [t EXCEPT !.history_index = t.history_index - 1]

open_or_step_history(t, up) ==
    IF ~t.history_open
    THEN [refresh_history_menu([t EXCEPT !.history_open = TRUE]) EXCEPT !.history_index = 0]
    ELSE IF t.history_items = <<>> THEN [t EXCEPT !.history_open = FALSE]
    ELSE IF up
    THEN [t EXCEPT !.history_index = Min(t.history_index + 1, Len(t.history_items) - 1)]
    ELSE IF t.history_index = 0 THEN [t EXCEPT !.history_open = FALSE]
    ELSE [t EXCEPT !.history_index = t.history_index - 1]

\* Vec::sort and the HashSet of load_path_commands
RECURSIVE InsertSorted(_, _)
InsertSorted(sorted, name) ==
    IF sorted = <<>> THEN <<name>>
    ELSE IF name = Head(sorted) THEN sorted
    ELSE IF StrLess(name, Head(sorted)) THEN <<name>> \o sorted
    ELSE <<Head(sorted)>> \o InsertSorted(Tail(sorted), name)

RECURSIVE load_path_commands(_)
load_path_commands(bins) ==
    IF bins = <<>> THEN <<>>
    ELSE InsertSorted(load_path_commands(SubSeq(bins, 1, Len(bins) - 1)), bins[Len(bins)])

maybe_refresh_path_commands(t, e) ==
    IF ~e.elapsed THEN t
    ELSE IF e.path_var = t.last_path_var THEN t
    ELSE [t EXCEPT !.last_path_var = e.path_var,
                   !.path_commands = load_path_commands(e.path_bins)]

\* the directories that path completion can list: std::fs::read_dir
CompletionEntry(name, is_dir) == [name |-> name, is_dir |-> is_dir]

HomeDir == <<"$HOME">>

ReadDir(dir) ==
    CASE dir = <<".">> -> Some(<< CompletionEntry(<<"b">>, FALSE), CompletionEntry(<<"a">>, TRUE),
                                  CompletionEntry(<<"a", "b">>, FALSE) >>)
      [] dir = <<"a">> -> Some(<< CompletionEntry(<<"b">>, FALSE), CompletionEntry(<<"a">>, FALSE) >>)
      [] dir = HomeDir -> Some(<< CompletionEntry(<<"a">>, TRUE) >>)
      [] OTHER -> None

RECURSIVE TrimLeadingSeparators(_)
TrimLeadingSeparators(s) ==
    IF s # <<>> /\ Head(s) \in {"\\", "/"} THEN TrimLeadingSeparators(Tail(s)) ELSE s

expand_tilde(path) ==
    IF StartsWith(path, <<"~">>)
    THEN LET rest == Tail(path) IN
         IF rest = <<>> THEN HomeDir
         ELSE LET r == TrimLeadingSeparators(rest) IN
              IF r = <<>> THEN HomeDir ELSE HomeDir \o <<"/">> \o r
    ELSE path

\* str::rfind(sep): the last index (from 1) of sep in s, 0 when absent
RFind(s, sep) ==
    IF \E i \in 1..Len(s) : s[i] = sep
    THEN CHOOSE i \in 1..Len(s) : s[i] = sep /\ \A j \in (i + 1)..Len(s) : s[j] # sep
    ELSE 0

\* (base, partial, sep)
split_path_token(token) ==
    LET sep == IF Contains(token, <<"\\">>) THEN "\\" ELSE "/"
        pos == RFind(token, sep)
    IN IF pos > 0
       THEN <<SubSeq(token, 1, pos - 1), SubSeq(token, pos + 1, Len(token)), sep>>
       ELSE <<<<>>, token, sep>>

\* the items append_path_suggestions pushes, in the order of read_dir
append_path_suggestions(t) ==
    LET parts == split_at_cursor(t)
        left == parts[1]
        right == parts[2]
        token == current_token(t)
        sp == split_path_token(token)
        base == sp[1]
        partial == sp[2]
        sep == sp[3]
        base_dir == IF base = <<>> THEN <<".">> ELSE expand_tilde(base)
        listing == ReadDir(base_dir)
        left_prefix == IF EndsWith(left, token)
                       THEN SubSeq(left, 1, Len(left) - Len(token)) ELSE left
        Item(entry) ==
            LET completed0 == IF base = <<>> THEN entry.name ELSE base \o <<sep>> \o entry.name
                completed == IF entry.is_dir THEN Append(completed0, sep) ELSE completed0
            IN SuggestionItem(completed, left_prefix \o completed \o right, "Path")
        Keep(entry) == StartsWith(entry.name, partial)
    IN IF token = <<>> \/ listing = None THEN <<>>
       ELSE LET kept == SelectSeq(listing[1], Keep) IN
            [i \in 1..Len(kept) |-> Item(kept[i])]

\* the items of s whose insert text is not in seen and not earlier in s
RECURSIVE DedupeInto(_, _, _)
DedupeInto(out, seen, items) ==
    IF items = <<>> THEN out
    ELSE IF Head(items).insert \in seen
    THEN DedupeInto(out, seen, Tail(items))
    ELSE DedupeInto(Append(out, Head(items)), seen \cup {Head(items).insert}, Tail(items))

\* dedupe_suggestions fed in the order Command, Path, History
dedupe_suggestions_CommandsFirst(history_items, path_items, command_items) ==
    DedupeInto(<<>>, {}, command_items \o path_items \o history_items)

dedupe_suggestions(history_items, path_items, command_items) ==
    DedupeInto(<<>>, {}, history_items \o path_items \o command_items)

refresh_suggestions(t0, e) ==
    LET prefix == prefix_at_cursor(t0) IN
    IF prefix = <<>> THEN [t0 EXCEPT !.suggestions = <<>>, !.suggest_index = 0]
    ELSE LET history_items == MapHistoryItems(HistoryMatches(t0.history, prefix))
             token == current_token(t0)
             path_branch == is_path_token(token)
             command_branch == ~path_branch /\ is_command_context(t0)
             t == IF command_branch THEN maybe_refresh_path_commands(t0, e) ELSE t0
             path_items == IF path_branch THEN SortByDisplay(append_path_suggestions(t0)) ELSE <<>>
             cmds == LET Match(cmd) == StartsWith(cmd, prefix) /\ cmd # prefix
                     IN SelectSeq(t.path_commands, Match)
             command_items ==
                 IF command_branch
                 THEN SortByDisplay([i \in 1..Len(cmds) |-> SuggestionItem(cmds[i], cmds[i], "Command")])
                 ELSE <<>>
         IN [t EXCEPT !.suggestions = dedupe_suggestions(history_items, path_items, command_items),
                      !.suggest_index = 0]

\* inline_ghost_insert without the test of the text after the cursor
inline_ghost_insert_IgnoresRight(t) ==
    IF has_selection(t) \/ t.input = <<>> \/ t.suggestions = <<>> THEN None
    ELSE LET suggestion == t.suggestions[Min(t.suggest_index, Len(t.suggestions) - 1) + 1]
             left == split_at_cursor(t)[1]
             candidate == suggestion.insert
         IN IF StartsWith(candidate, left) /\ Len(candidate) > Len(left)
            THEN Some(Drop(candidate, Len(left)))
            ELSE None

inline_ghost_insert(t) ==
    IF has_selection(t) \/ t.input = <<>> \/ t.suggestions = <<>> THEN None
    ELSE LET suggestion == t.suggestions[Min(t.suggest_index, Len(t.suggestions) - 1) + 1]
             parts == split_at_cursor(t)
             left == parts[1]
             right == parts[2]
             candidate == suggestion.insert
         IN IF right = <<>>
            THEN IF StartsWith(candidate, t.input) /\ Len(candidate) > Len(t.input)
                 THEN Some(Drop(candidate, Len(t.input)))
                 ELSE None
            ELSE IF StartsWith(candidate, left) /\ EndsWith(candidate, right)
                    /\ Max(Len(candidate) - Len(right), 0) > Len(left)
                 THEN Some(SubSeq(candidate, Len(left) + 1, Len(candidate) - Len(right)))
                 ELSE None

has_suggestion(t) ==
    IF has_selection(t) THEN FALSE
    ELSE IF inline_ghost_insert(t) # None THEN TRUE
    ELSE IF t.suggest_index < Len(t.suggestions)
    THEN t.suggestions[t.suggest_index + 1].insert # t.input
    ELSE FALSE

accept_suggestion(t, e) ==
    LET ghost == inline_ghost_insert(t) IN
    IF ghost # None /\ ghost[1] # <<>>
    THEN refresh_history_menu(refresh_suggestions(clear_selection(insert_text(t, ghost[1])), e))
    ELSE IF t.suggest_index < Len(t.suggestions)
    THEN LET item == t.suggestions[t.suggest_index + 1]
             t1 == IF item.insert # t.input
                   THEN clear_selection([t EXCEPT !.input = item.insert,
                                                  !.cursor = Len(item.insert)])
                   ELSE t
         IN refresh_history_menu(refresh_suggestions(t1, e))
    ELSE t

accept_history_item(t, e) ==
    IF t.history_items = <<>> THEN [t EXCEPT !.history_open = FALSE]
    ELSE LET item == t.history_items[Min(t.history_index, Len(t.history_items) - 1) + 1] IN
         refresh_suggestions(
             [clear_selection([t EXCEPT !.input = item.insert, !.cursor = Len(item.insert)])
                 EXCEPT !.history_open = FALSE, !.history_items = <<>>], e)

(***************************************************************************)
(* TabView: history and command submission.                                *)
(***************************************************************************)
\* push_history without the comparison against the front entry
push_history_NoFrontTest(t, command) ==
    LET grown == <<command>> \o t.history
        kept == IF Len(grown) > HistoryCap THEN SubSeq(grown, 1, Len(grown) - 1) ELSE grown
    IN [t |-> [t EXCEPT !.history = kept],
        appended |-> IF t.history_file # None THEN <<command>> ELSE <<>>]

\* returns [t, appended]: the view afterwards and the lines that
\* append_history_line writes to the log file (the write is taken to succeed)
push_history(t, command) ==
    IF t.history # <<>> /\ Head(t.history) = command
    THEN [t |-> t, appended |-> <<>>]
    ELSE LET grown == <<command>> \o t.history
             kept == IF Len(grown) > HistoryCap THEN SubSeq(grown, 1, Len(grown) - 1) ELSE grown
         IN [t |-> [t EXCEPT !.history = kept],
             appended |-> IF t.history_file # None THEN <<command>> ELSE <<>>]

Block(command, context) ==
    [command |-> command, output_lines |-> <<>>, has_error |-> FALSE, context |-> context]

BlockContext(t) ==
    [cwd |-> t.current_path,
     git_branch |-> IF t.git_status = None THEN None ELSE Some(t.git_status[1].branch),
     git_files |-> IF t.git_status = None THEN None ELSE Some(t.git_status[1].files_changed),
     git_added |-> IF t.git_status = None THEN None ELSE Some(t.git_status[1].added),
     git_deleted |-> IF t.git_status = None THEN None ELSE Some(t.git_status[1].deleted),
     git_modified |-> IF t.git_status = None THEN None ELSE Some(t.git_status[1].modified)]

\* run_command that leaves the input bar shown
run_command_KeepsInput(t0, command0) ==
    LET command == Trim(command0) IN
    IF command = <<>> THEN [t |-> t0, appended |-> <<>>, written |-> <<>>, pushed |-> <<>>]
    ELSE LET lower == to_ascii_lowercase(command)
             ph == push_history(
                     [t0 EXCEPT !.needs_git_refresh =
                         StartsWith(lower, <<"g", "i", "t", " ", "c", "h", "e", "c", "k", "o", "u", "t">>)
                         \/ StartsWith(lower, <<"g", "i", "t", " ", "s", "w", "i", "t", "c", "h">>)],
                     command)
             t == ph.t
         IN [t |-> clear_selection(
                     [t EXCEPT !.pending_echo = Some(command),
                               !.blocks = Append(t.blocks, Block(command, Some(BlockContext(t)))),
                               !.input = <<>>, !.cursor = 0, !.history_open = FALSE,
                               !.history_items = <<>>, !.suggestions = <<>>,
                               !.suggest_index = 0]),
             appended |-> ph.appended,
             written |-> IF t.pty THEN command \o <<"\r", "\n">> ELSE <<>>,
             pushed |-> <<command>>]

\* returns [t, appended, written, pushed]: the view afterwards, the lines
\* appended to the log file, the bytes written to the pty and the commands
\* passed to push_history
run_command(t0, command0) ==
    LET command == Trim(command0) IN
    IF command = <<>> THEN [t |-> t0, appended |-> <<>>, written |-> <<>>, pushed |-> <<>>]
    ELSE LET lower == to_ascii_lowercase(command)
             ph == push_history(
                     [t0 EXCEPT !.needs_git_refresh =
                         StartsWith(lower, <<"g", "i", "t", " ", "c", "h", "e", "c", "k", "o", "u", "t">>)
                         \/ StartsWith(lower, <<"g", "i", "t", " ", "s", "w", "i", "t", "c", "h">>)],
                     command)
             t == ph.t
         IN [t |-> clear_selection(
                     [t EXCEPT !.pending_echo = Some(command),
                               !.blocks = Append(t.blocks, Block(command, Some(BlockContext(t)))),
                               !.input = <<>>, !.cursor = 0, !.history_open = FALSE,
                               !.history_items = <<>>, !.suggestions = <<>>,
                               !.suggest_index = 0, !.input_visible = FALSE]),
             appended |-> ph.appended,
             written |-> IF t.pty THEN command \o <<"\r", "\n">> ELSE <<>>,
             pushed |-> <<command>>]

commit_input(t) ==
    LET command == Trim(t.input) IN
    IF command = <<>>
    THEN [t |-> clear_selection([t EXCEPT !.input = <<>>, !.cursor = 0]),
          appended |-> <<>>, written |-> IF t.pty THEN <<"\r", "\n">> ELSE <<>>,
          pushed |-> <<>>]
    ELSE run_command(t, command)


(***************************************************************************)
(* TabView: terminal output.  Control characters are the tokens "ESC",     *)
(* "BEL" and "NUL".                                                        *)
(***************************************************************************)
RECURSIVE StripNormal(_), SkipCsi(_), SkipOsc(_, _)
StripNormal(s) ==
    IF s = <<>> THEN <<>>
    ELSE IF Head(s) = "ESC"
    THEN IF Tail(s) = <<>> THEN <<>>
         ELSE IF Head(Tail(s)) = "[" THEN SkipCsi(Tail(Tail(s)))
         ELSE IF Head(Tail(s)) = "]" THEN SkipOsc(Tail(Tail(s)), "NUL")
         ELSE StripNormal(Tail(s))
    ELSE <<Head(s)>> \o StripNormal(Tail(s))

SkipCsi(s) ==
    IF s = <<>> THEN <<>>
    ELSE IF CodePoint(Head(s)) \in 64..126 THEN StripNormal(Tail(s))
    ELSE SkipCsi(Tail(s))

\* SkipOsc that ends an OSC sequence at BEL only
SkipOsc_BelOnly(s, prev) ==
    IF s = <<>> THEN <<>>
    ELSE IF Head(s) = "BEL" THEN StripNormal(Tail(s))
    ELSE SkipOsc(Tail(s), Head(s))

SkipOsc(s, prev) ==
    IF s = <<>> THEN <<>>
    ELSE IF Head(s) = "BEL" \/ (prev = "ESC" /\ Head(s) = "\\") THEN StripNormal(Tail(s))
    ELSE SkipOsc(Tail(s), Head(s))

strip_ansi(input) == StripNormal(input)

\* .replace("\r\n", "\n").replace('\r', "\n")
RECURSIVE NormalizeNewlines(_)
NormalizeNewlines(s) ==
    IF s = <<>> THEN <<>>
    ELSE IF Head(s) = "\r"
    THEN IF Tail(s) # <<>> /\ Head(Tail(s)) = "\n"
         THEN <<"\n">> \o NormalizeNewlines(Tail(Tail(s)))
         ELSE <<"\n">> \o NormalizeNewlines(Tail(s))
    ELSE <<Head(s)>> \o NormalizeNewlines(Tail(s))

\* str::split('\n')
RECURSIVE SplitLines(_)
SplitLines(s) ==
    IF \E i \in 1..Len(s) : s[i] = "\n"
    THEN LET i == CHOOSE k \in 1..Len(s) : s[k] = "\n" /\ \A j \in 1..(k - 1) : s[j] # "\n"
         IN <<SubSeq(s, 1, i - 1)>> \o SplitLines(SubSeq(s, i + 1, Len(s)))
    ELSE <<s>>

OutputLines(chunk) ==
    LET normalized == NormalizeNewlines(strip_ansi(chunk))
        lines == SplitLines(normalized)
    IN IF EndsWith(normalized, <<"\n">>) /\ lines[Len(lines)] = <<>>
       THEN SubSeq(lines, 1, Len(lines) - 1)
       ELSE lines

\* git::get_git_status: what libgit2 reports for the directory, None
\* outside a repository
GitStatus(branch, files_changed, added, deleted, modified) ==
    [branch |-> branch, files_changed |-> files_changed, added |-> added,
     deleted |-> deleted, modified |-> modified]

\* refresh_git_status that also rewrites the branch in the context of the
\* last block
refresh_git_status_Retroactive(t, git) ==
    LET n == Len(t.blocks)
        branch == IF git = None THEN None ELSE Some(git[1].branch)
    IN  IF n = 0 \/ t.blocks[n].context = None THEN [t EXCEPT !.git_status = git]
        ELSE [t EXCEPT !.git_status = git,
                       !.blocks[n].context = Some([t.blocks[n].context[1] EXCEPT !.git_branch = branch])]

refresh_git_status(t, git) == [t EXCEPT !.git_status = git]

PromptPrefix == <<"P", "S", " ">>

\* maybe_update_prompt_path that emits the event and keeps current_path
maybe_update_prompt_path_KeepsPath(t, line, git) ==
    LET trimmed == Trim(line)
        rest == Drop(trimmed, Len(PromptPrefix))
        path == Trim(SubSeq(rest, 1, Len(rest) - 1))
    IN IF StartsWith(trimmed, PromptPrefix) /\ EndsWith(rest, <<">">>)
          /\ path # <<>> /\ t.current_path # path
       THEN [t |-> [refresh_git_status(t, git) EXCEPT !.needs_git_refresh = FALSE],
             emitted |-> <<path>>]
       ELSE [t |-> t, emitted |-> <<>>]

\* returns [t, emitted]
maybe_update_prompt_path(t, line, git) ==
    LET trimmed == Trim(line)
        rest == Drop(trimmed, Len(PromptPrefix))
        path == Trim(SubSeq(rest, 1, Len(rest) - 1))
    IN IF StartsWith(trimmed, PromptPrefix) /\ EndsWith(rest, <<">">>)
          /\ path # <<>> /\ t.current_path # path
       THEN [t |-> [refresh_git_status([t EXCEPT !.current_path = path], git)
                       EXCEPT !.needs_git_refresh = FALSE],
             emitted |-> <<path>>]
       ELSE [t |-> t, emitted |-> <<>>]

is_git_branch_change_line(line) ==
    LET s == to_ascii_lowercase(Trim(line)) IN
    \/ Contains(s, <<"s", "w", "i", "t", "c", "h", "e", "d", " ", "t", "o", " ", "b", "r", "a", "n", "c", "h">>)
    \/ Contains(s, <<"s", "w", "i", "t", "c", "h", "e", "d", " ", "t", "o", " ", "a", " ", "n", "e", "w", " ", "b", "r", "a", "n", "c", "h">>)
    \/ Contains(s, <<"a", "l", "r", "e", "a", "d", "y", " ", "o", "n">>)
    \/ Contains(s, <<"h", "e", "a", "d", " ", "i", "s", " ", "n", "o", "w", " ", "a", "t">>)
    \/ Contains(s, <<"y", "o", "u", "r", " ", "b", "r", "a", "n", "c", "h", " ", "i", "s", " ", "u", "p", " ", "t", "o", " ", "d", "a", "t", "e">>)

is_prompt_line(line) ==
    LET trimmed == Trim(line) IN
    StartsWith(trimmed, PromptPrefix) /\ EndsWith(trimmed, <<">">>)

\* should_skip_output_line that goes on waiting for the echo
should_skip_output_line_KeepsWaiting(t, line, git) ==
    LET trimmed == Trim(line) IN
    IF t.pending_echo # None /\ trimmed = t.pending_echo[1]
    THEN [t |-> t, ret |-> TRUE]
    ELSE IF trimmed = <<">", ">">>
    THEN [t |-> [t EXCEPT !.input_visible = TRUE], ret |-> TRUE]
    ELSE IF is_prompt_line(trimmed)
    THEN [t |-> [refresh_git_status([t EXCEPT !.input_visible = TRUE], git)
                    EXCEPT !.needs_git_refresh = FALSE],
          ret |-> TRUE]
    ELSE [t |-> t, ret |-> FALSE]

\* returns [t, ret]
should_skip_output_line(t, line, git) ==
    LET trimmed == Trim(line) IN
    IF t.pending_echo # None /\ trimmed = t.pending_echo[1]
    THEN [t |-> [t EXCEPT !.pending_echo = None], ret |-> TRUE]
    ELSE IF trimmed = <<">", ">">>
    THEN [t |-> [t EXCEPT !.input_visible = TRUE], ret |-> TRUE]
    ELSE IF is_prompt_line(trimmed)
    THEN [t |-> [refresh_git_status([t EXCEPT !.input_visible = TRUE], git)
                    EXCEPT !.needs_git_refresh = FALSE],
          ret |-> TRUE]
    ELSE [t |-> t, ret |-> FALSE]

is_error_line(line) ==
    LET s == to_ascii_lowercase(Trim(line)) IN
    \/ Contains(s, <<"n", "o", "t", " ", "r", "e", "c", "o", "g", "n", "i", "z", "e", "d", " ", "a", "s">>)
    \/ Contains(s, <<"i", "s", " ", "n", "o", "t", " ", "r", "e", "c", "o", "g", "n", "i", "z", "e", "d">>)
    \/ Contains(s, <<"c", "a", "n", "n", "o", "t", " ", "f", "i", "n", "d", " ", "p", "a", "t", "h">>)
    \/ Contains(s, <<"c", "a", "t", "e", "g", "o", "r", "y", "i", "n", "f", "o">>)
    \/ Contains(s, <<"f", "u", "l", "l", "y", "q", "u", "a", "l", "i", "f", "i", "e", "d", "e", "r", "r", "o", "r", "i", "d">>)
    \/ StartsWith(s, <<"e", "r", "r", "o", "r", ":">>)
    \/ Contains(s, <<"e", "x", "c", "e", "p", "t", "i", "o", "n">>)
    \/ Contains(s, <<"a", "t", " ", "l", "i", "n", "e", ":">>)

ensure_output_block(t) ==
    IF t.blocks = <<>>
    THEN [t EXCEPT !.blocks = << [command |-> <<>>, output_lines |-> <<>>,
                                  has_error |-> FALSE, context |-> None] >>]
    ELSE t

append_output_first_line(t0, line, git) ==
    LET sk == should_skip_output_line(t0, line, git) IN
    IF sk.ret THEN sk.t
    ELSE LET t == ensure_output_block(sk.t)
             n == Len(t.blocks)
             block == t.blocks[n]
             lines == block.output_lines
         IN [t EXCEPT !.blocks[n] =
                [block EXCEPT !.has_error = block.has_error \/ is_error_line(line),
                              !.output_lines =
                                  IF lines = <<>> THEN <<line>>
                                  ELSE [lines EXCEPT ![Len(lines)] = lines[Len(lines)] \o line]]]

append_output_new_line(t0, line, git) ==
    LET sk == should_skip_output_line(t0, line, git) IN
    IF sk.ret THEN sk.t
    ELSE LET t == ensure_output_block(sk.t)
             n == Len(t.blocks)
             block == t.blocks[n]
         IN [t EXCEPT !.blocks[n] =
                [block EXCEPT !.has_error = block.has_error \/ is_error_line(line),
                              !.output_lines = Append(block.output_lines, line)]]

\* the first loop of append_output; returns [t, emitted]
RECURSIVE ScanLines(_, _, _, _)
\* ScanLines that leaves needs_git_refresh set after the refresh
ScanLines_KeepsFlag(t, acc, lines, git) ==
    IF lines = <<>> THEN [t |-> t, emitted |-> acc]
    ELSE LET up == maybe_update_prompt_path(t, Head(lines), git)
             t1 == IF up.t.needs_git_refresh /\ is_git_branch_change_line(Head(lines))
                   THEN refresh_git_status(up.t, git)
                   ELSE up.t
         IN ScanLines(t1, acc \o up.emitted, Tail(lines), git)

ScanLines(t, acc, lines, git) ==
    IF lines = <<>> THEN [t |-> t, emitted |-> acc]
    ELSE LET up == maybe_update_prompt_path(t, Head(lines), git)
             t1 == IF up.t.needs_git_refresh /\ is_git_branch_change_line(Head(lines))
                   THEN [refresh_git_status(up.t, git) EXCEPT !.needs_git_refresh = FALSE]
                   ELSE up.t
         IN ScanLines(t1, acc \o up.emitted, Tail(lines), git)

RECURSIVE AppendNewLines(_, _, _)
AppendNewLines(t, lines, git) ==
    IF lines = <<>> THEN t
    ELSE AppendNewLines(append_output_new_line(t, Head(lines), git), Tail(lines), git)

\* returns [t, emitted]
append_output(t, chunk, git) ==
    LET lines == OutputLines(chunk)
        scan == ScanLines(t, <<>>, lines, git)
    IN [t |-> AppendNewLines(append_output_first_line(scan.t, Head(lines), git), Tail(lines), git),
        emitted |-> scan.emitted]


(***************************************************************************)
(* TabView: the startup merge of the history files.  A file is the         *)
(* sequence of its lines (str::lines); a missing or unreadable file reads  *)
(* as no lines.                                                            *)
(***************************************************************************)
\* the loop `for entry in entries.rev() { if seen.insert(entry) {
\* history.push_front(entry) } }`: an entry is taken unless it is in seen
\* or occurs again later in entries, and the taken entries end up in front
\* of the history in the order of the file
LoadEntries(entries, st) ==
    LET n == Len(entries)
        Keep(i) == /\ entries[i] \notin st.seen
                   /\ \A j \in (i + 1)..n : entries[j] # entries[i]
        keptIdx == SelectSeq([i \in 1..n |-> i], Keep)
        new == [k \in 1..Len(keptIdx) |-> entries[keptIdx[k]]]
    IN [history |-> new \o st.history, seen |-> st.seen \cup Range(new)]

load_history_from_file(lines, st) ==
    LET NonBlank(l) == Trim(l) # <<>> IN LoadEntries(SelectSeq(lines, NonBlank), st)

\* str::find(';'): the first index (from 1) of ch in s, 0 when absent
Find(s, ch) ==
    IF \E i \in 1..Len(s) : s[i] = ch
    THEN CHOOSE i \in 1..Len(s) : s[i] = ch /\ \A j \in 1..(i - 1) : s[j] # ch
    ELSE 0

ZshCommand(line0) ==
    LET line == Trim(line0)
        pos == Find(line, ";")
    IN Trim(IF pos > 0 THEN Drop(line, pos) ELSE line)

load_zsh_history(lines, st) ==
    LET cmds == [i \in 1..Len(lines) |-> ZshCommand(lines[i])]
        NonEmpty(c) == c # <<>>
    IN LoadEntries(SelectSeq(cmds, NonEmpty), st)

FishCommand(line0) ==
    LET line == Trim(line0) IN
    IF StartsWith(line, <<"-", " ", "c", "m", "d", ":">>) THEN Trim(Drop(line, Len(<<"-", " ", "c", "m", "d", ":">>)))
    ELSE IF StartsWith(line, <<"c", "m", "d", ":">>) THEN Trim(Drop(line, Len(<<"c", "m", "d", ":">>)))
    ELSE <<>>

load_fish_history(lines, st) ==
    LET cmds == [i \in 1..Len(lines) |-> FishCommand(lines[i])]
        NonEmpty(c) == c # <<>>
    IN LoadEntries(SelectSeq(cmds, NonEmpty), st)

\* doskey is None when the command cannot be run or fails
load_cmd_doskey_history(doskey, st) ==
    IF doskey = None THEN st
    ELSE LET ls == [i \in 1..Len(doskey[1]) |-> Trim(doskey[1][i])]
             NonEmpty(c) == c # <<>>
         IN LoadEntries(SelectSeq(ls, NonEmpty), st)

load_unix_shell_history(h, st) ==
    IF ~h.home THEN st
    ELSE load_fish_history(h.fish, load_zsh_history(h.zsh, load_history_from_file(h.bash, st)))

app_data_dir(h) == h.appdata \/ h.xdg \/ h.home

\* h is the environment at startup: which of APPDATA, XDG_DATA_HOME and
\* HOME are set, the build (windows or not) and the lines of each file.
\* Returns [history, history_file].
load_initial_history(h) ==
    LET st0 == [history |-> <<>>, seen |-> {}]
        st1 == IF app_data_dir(h) THEN load_history_from_file(h.app_log, st0) ELSE st0
        st2 == IF h.windows
               THEN load_cmd_doskey_history(h.doskey,
                        IF h.appdata
                        THEN load_history_from_file(h.pwsh,
                                 load_history_from_file(h.windows_ps, st1))
                        ELSE st1)
               ELSE load_unix_shell_history(h, st1)
    IN [history |-> st2.history,
        history_file |-> IF app_data_dir(h) THEN Some("history.txt") ELSE None]

\* TabView::new: new_base, then start_terminal_with_path with a pty that
\* could be created; cwd is the formatted working directory
new(h, p, cwd, git) ==
    LET loaded == load_initial_history(h) IN
    [blocks |-> <<>>, pty |-> TRUE, input |-> <<>>, cursor |-> 0,
     history |-> loaded.history, history_file |-> loaded.history_file,
     history_open |-> FALSE, history_index |-> 0, history_items |-> <<>>,
     suggestions |-> <<>>, suggest_index |-> 0,
     selection |-> None, selection_anchor |-> None,
     path_commands |-> load_path_commands(p.path_bins), last_path_var |-> p.path_var,
     current_path |-> cwd, git_status |-> git, pending_echo |-> None,
     input_visible |-> TRUE, needs_git_refresh |-> FALSE]

(***************************************************************************)
(* TabView::on_key_down.  ev is the key event: [key, key_char, ctrl,       *)
(* shift], key the name of the key and key_char the text it produces       *)
(* (None, or Some of a string of scalars).  The overlay is never open (it  *)
(* is opened with the mouse only), so handle_overlay_key returns false.    *)
(* Returns [t, appended, written, pushed].                                 *)
(***************************************************************************)
KeyEvent(key, key_char, ctrl, shift) ==
    [key |-> key, key_char |-> key_char, ctrl |-> ctrl, shift |-> shift]

\* the keys whose name is one ASCII character
SingleCharKeys == {"a", "b", "c", "g", "/", ".", "~", "-"}

NoEffect(t) == [t |-> t, appended |-> <<>>, written |-> <<>>, pushed |-> <<>>]

Refreshed(t, e) == refresh_history_menu(refresh_suggestions(t, e))

KeyEnter(t, e) ==
    IF t.history_open THEN NoEffect(accept_history_item(t, e)) ELSE commit_input(t)

KeyBackspace(t, e) ==
    LET d == delete_selection_if_any(t) IN
    IF d.ret THEN Refreshed(d.t, e)
    ELSE IF d.t.input # <<>> THEN Refreshed(pop_char_before_cursor(d.t), e)
    ELSE d.t

KeyLeft(t, ev) ==
    LET moved ==
          IF ev.shift
          THEN LET new_cursor == IF ev.ctrl THEN move_word_left(t, t.cursor)
                                 ELSE Max(t.cursor - 1, 0)
                   anchor == IF t.selection_anchor = None THEN t.cursor
                             ELSE t.selection_anchor[1]
               IN set_selection_from_anchor([t EXCEPT !.cursor = new_cursor], anchor, new_cursor)
          ELSE clear_selection(
                 IF has_selection(t)
                 THEN [t EXCEPT !.cursor = normalized_selection(t)[1][1]]
                 ELSE IF ev.ctrl THEN [t EXCEPT !.cursor = move_word_left(t, t.cursor)]
                 ELSE move_cursor_left(t))
    IN [moved EXCEPT !.history_open = FALSE]

KeyRight(t, ev, e) ==
    LET moved ==
          IF ev.shift
          THEN LET new_cursor == IF ev.ctrl THEN move_word_right(t, t.cursor)
                                 ELSE Min(t.cursor + 1, Len(t.input))
                   anchor == IF t.selection_anchor = None THEN t.cursor
                             ELSE t.selection_anchor[1]
               IN set_selection_from_anchor([t EXCEPT !.cursor = new_cursor], anchor, new_cursor)
          ELSE IF ev.ctrl
          THEN clear_selection([t EXCEPT !.cursor = move_word_right(t, t.cursor)])
          ELSE IF has_selection(t)
          THEN clear_selection([t EXCEPT !.cursor = normalized_selection(t)[1][2]])
          ELSE IF has_suggestion(t) THEN accept_suggestion(t, e)
          ELSE move_cursor_right(t)
    IN [moved EXCEPT !.history_open = FALSE]

KeyDefault(t, ev, e) ==
    IF ev.key_char # None
    THEN IF ev.key_char[1] # <<>> THEN Refreshed(insert_text(t, ev.key_char[1]), e) ELSE t
    ELSE IF ev.key \in SingleCharKeys THEN Refreshed(insert_text(t, <<ev.key>>), e)
    ELSE t

on_key_down(t, ev, e) ==
    IF ev.ctrl /\ ev.key \in {"a", "A"} THEN NoEffect(select_all_input(t))
    ELSE IF ev.ctrl /\ ev.key \in SingleCharKeys /\ t.pty
            /\ CodePoint(AsciiLowerCh(ev.key)) \in 97..122
    THEN [NoEffect(t) EXCEPT !.written = <<"^" \o AsciiLowerCh(ev.key)>>]
    ELSE IF ~t.input_visible /\ ev.key # "escape" THEN NoEffect(t)
    ELSE IF ev.key \in {"enter", "return", "numpadenter"} THEN KeyEnter(t, e)
    ELSE IF ev.key = "backspace" THEN NoEffect(KeyBackspace(t, e))
    ELSE IF ev.key = "space" THEN NoEffect(Refreshed(insert_text(t, <<" ">>), e))
    ELSE IF ev.key = "tab"
    THEN NoEffect(IF has_suggestion(t) THEN accept_suggestion(t, e) ELSE t)
    ELSE IF ev.key \in {"left", "arrowleft"} THEN NoEffect(KeyLeft(t, ev))
    ELSE IF ev.key \in {"right", "arrowright"} THEN NoEffect(KeyRight(t, ev, e))
    ELSE IF ev.key = "home"
    THEN NoEffect([clear_selection(t) EXCEPT !.cursor = 0, !.history_open = FALSE])
    ELSE IF ev.key = "end"
    THEN NoEffect([clear_selection(t) EXCEPT !.cursor = Len(t.input), !.history_open = FALSE])
    ELSE IF ev.key \in {"up", "arrowup"} THEN NoEffect(open_or_step_history(t, TRUE))
    ELSE IF ev.key \in {"down", "arrowdown"} THEN NoEffect(open_or_step_history(t, FALSE))
    ELSE IF ev.key = "escape"
    THEN IF ~t.input_visible /\ t.pty THEN [NoEffect(t) EXCEPT !.written = <<"^c">>]
         ELSE NoEffect(t)
    ELSE NoEffect(KeyDefault(t, ev, e))


(***************************************************************************)
(* The environments and inputs considered, and the actions of TabView.     *)
(***************************************************************************)
\* an environment with HOME set and no history file
NoHistory ==
    [appdata |-> FALSE, xdg |-> FALSE, home |-> TRUE, windows |-> FALSE,
     app_log |-> <<>>, windows_ps |-> <<>>, pwsh |-> <<>>, doskey |-> None,
     bash |-> <<>>, zsh |-> <<>>, fish |-> <<>>]

\* none of APPDATA, XDG_DATA_HOME and HOME is set: no log file
NoAppDir == [NoHistory EXCEPT !.home = FALSE]

\* HistoryCap + 1 distinct lines of three scalars
Digits == <<"0", "1", "2", "3", "4", "5", "6", "7", "8", "9", "c", "d", "g">>

BigLine(i) ==
    << Digits[((i \div 169) % 13) + 1], Digits[((i \div 13) % 13) + 1], Digits[(i % 13) + 1] >>

BigLog == [i \in 1..(HistoryCap + 1) |-> BigLine(i)]

SmallLog == << <<"a", "b">>, <<"a">>, <<" ">>, <<"a", "b">>, <<"a", "a">> >>

StartupEnvs ==
    { NoHistory,
      NoAppDir,
      [NoHistory EXCEPT !.app_log = SmallLog],
      [NoHistory EXCEPT !.app_log = << <<"a">>, <<"b">> >>,
                        !.bash = << <<"b">>, <<"a", "b">> >>,
                        !.zsh = << <<":", " ", "1", ":", "0", ";", "a", "a">>, <<" ", "b", " ">> >>,
                        !.fish = << <<"-", " ", "c", "m", "d", ":", " ", "a", "/">>,
                                    <<" ", " ", "w", "h", "e", "n", ":", " ", "1">> >>],
      [NoHistory EXCEPT !.home = FALSE, !.appdata = TRUE, !.windows = TRUE,
                        !.app_log = << <<"a">> >>,
                        !.windows_ps = << <<"b">>, <<"a">> >>,
                        !.pwsh = << <<"a", "b">> >>,
                        !.doskey = Some(<< <<" ", "a", "a">>, <<"b">> >>)],
      [NoHistory EXCEPT !.app_log = BigLog] }

PathEnv(path_var, path_bins) == [path_var |-> path_var, path_bins |-> path_bins]

PathEnvs ==
    { PathEnv("P1", << <<"b">>, <<"a", "b">>, <<"a", "a">>, <<"a", "b">> >>),
      PathEnv("P2", << <<"a", "b", "a">>, <<"a", "a">> >>) }

DefaultPath == PathEnv("P1", << <<"b">>, <<"a", "b">>, <<"a", "a">>, <<"a", "b">> >>)

\* the tab view right after TabView::new in the environment h, p
TabNew(h, p) ==
    /\ git_repo = None
    /\ path_env = p
    /\ tab = new(h, p, <<"~">>, None)
    /\ history_log = IF app_data_dir(h) THEN h.app_log ELSE <<>>
    /\ pty_out = <<>>
    /\ emitted = <<>>
    /\ pushed = <<>>
    /\ prompt_seen = FALSE

TabIdle == TabNew(NoHistory, DefaultPath)

Typed(ch) == KeyEvent(ch, Some(<<ch>>), FALSE, FALSE)

Key(name) == KeyEvent(name, None, FALSE, FALSE)

\* the commands run so far are at most MaxCommands
MaxCommands == 3

\* a key event on the tab view, as long as the commands run stay within
\* MaxCommands; whether 60 s have passed since the last scan of PATH is not
\* known (and makes no difference while PATH is what it was at that scan)
TabKeyAny(ev) ==
    /\ focus = "tab"
    /\ \E elapsed \in IF path_env.path_var = tab.last_path_var THEN {TRUE} ELSE BOOLEAN :
         \E r \in {on_key_down(tab, ev, [elapsed |-> elapsed, path_var |-> path_env.path_var,
                                         path_bins |-> path_env.path_bins])} :
            /\ Len(pushed) + Len(r.pushed) <= MaxCommands
            /\ tab' = r.t
            /\ history_log' = history_log \o r.appended
            /\ pty_out' = r.written
            /\ pushed' = pushed \o r.pushed
            /\ prompt_seen' = (prompt_seen /\ r.pushed = <<>>)
            /\ emitted' = <<>>
    /\ UNCHANGED <<shellVars, termVars, focus, boxVars, searchVars, path_env, git_repo>>

\* a key event on the tab view, as long as the input stays within MaxLen
\* scalars
TabKey(ev) == TabKeyAny(ev) /\ Len(tab'.input) <= MaxLen

\* the task spawned by start_terminal_with_path receives a chunk of
\* output: append_output
TabOutput(chunk) ==
    /\ focus = "tab"
    /\ \E r \in {append_output(tab, chunk, git_repo)} :
          /\ tab' = r.t
          /\ emitted' = r.emitted
    /\ prompt_seen' = (prompt_seen \/ \E i \in 1..Len(OutputLines(chunk)) :
                                        is_prompt_line(OutputLines(chunk)[i]))
    /\ pty_out' = <<>>
    /\ UNCHANGED <<shellVars, termVars, focus, boxVars, searchVars, path_env, git_repo, history_log, pushed>>

\* PATH changes
PathChange ==
    /\ focus = "tab"
    /\ \E p \in PathEnvs : p # path_env /\ path_env' = p
    /\ UNCHANGED <<shellVars, termVars, focus, boxVars, searchVars, tab, git_repo, history_log, pushed,
                   prompt_seen, pty_out, emitted>>

\* a key event on the sidebar other than Enter
SidebarKey(ev) ==
    /\ focus = "sidebar"
    /\ \E ed \in {Sidebar_on_key_down(mode, SearchBox, ev)} :
          /\ Len(ed.text) <= MaxLen
          /\ SetSearchBox(ed)
    /\ UNCHANGED <<shellVars, termVars, focus, mode, searchVars, tabVars>>

\* a click on a header button of the sidebar
SidebarSetMode ==
    /\ focus = "sidebar"
    /\ \E m \in {"Explorer", "Search", "Git"} : set_mode(m)
    /\ UNCHANGED <<shellVars, termVars, focus, searchVars, tabVars>>

(***************************************************************************)
(* Messages of a search worker.                                            *)
(***************************************************************************)
Batch(g, results) == [type |-> "Batch", gen |-> g, results |-> results]

Done(g) == [type |-> "Done", gen |-> g, results |-> <<>>]

\* SearchResult; text (the snippet) is not modelled.  gen is a history
\* field: the generation of the worker that produced the result.
SearchResult(g, path, line, is_filename) ==
    [path |-> path, line |-> line, is_filename |-> is_filename, gen |-> g]

Gens == 1..MaxGen

IdleWorker ==
    [pc |-> "none", query |-> <<>>, stack |-> <<>>, dir |-> <<>>, entries |-> <<>>,
     path |-> <<>>, entry |-> FileNode(<<>>, FALSE, 0, FALSE, <<>>), idx |-> 0,
     batch |-> <<>>, total |-> 0, cancelled |-> FALSE, sent_after |-> 0]

SearchInit ==
    /\ search_generation = 0
    /\ search_cancel = 0
    /\ search_pending = FALSE
    /\ search_results = <<>>
    /\ \E parsed \in RuleFiles : rules = load_rules(parsed)
    /\ worker = [g \in Gens |-> IdleWorker]
    /\ chan = [g \in Gens |-> <<>>]
    /\ consumer = [g \in Gens |-> "none"]
    /\ fs \in Trees

\* run_search that leaves the atomic alone when the query is empty
run_search_StoresWhenScanning(q) ==
    /\ search_generation < MaxGen
    /\ LET generation == search_generation + 1
           query == Trim(q)
       IN /\ search_generation' = generation
          /\ search_cancel' = IF query = <<>> THEN search_cancel ELSE generation
          /\ search_results' = <<>>
          /\ IF query = <<>>
             THEN /\ search_pending' = FALSE
                  /\ UNCHANGED <<worker, chan, consumer>>
             ELSE /\ search_pending' = TRUE
                  /\ worker' = [worker EXCEPT ![generation] =
                        [IdleWorker EXCEPT !.pc = "pop", !.query = query,
                                           !.stack = << [path |-> <<>>, node |-> fs] >>]]
                  /\ consumer' = [consumer EXCEPT ![generation] = "running"]
                  /\ UNCHANGED chan
    /\ UNCHANGED <<rules, fs>>

(***************************************************************************)
(* SidebarView::run_search -- the UI side (lines 476-494), the spawn of    *)
(* the worker thread and of the consumer task.  q is the content of the    *)
(* query box when Enter is pressed; run_search only reads it.              *)
(***************************************************************************)
run_search(q) ==
    /\ search_generation < MaxGen
    /\ LET generation == search_generation + 1
           query == Trim(q)
       IN /\ search_generation' = generation
          /\ search_cancel' = generation
          /\ search_results' = <<>>
          /\ IF query = <<>>
             THEN /\ search_pending' = FALSE
                  /\ UNCHANGED <<worker, chan, consumer>>
             ELSE /\ search_pending' = TRUE
                  /\ worker' = [worker EXCEPT ![generation] =
                        [IdleWorker EXCEPT !.pc = "pop", !.query = query,
                                           !.stack = << [path |-> <<>>, node |-> fs] >>]]
                  /\ consumer' = [consumer EXCEPT ![generation] = "running"]
                  /\ UNCHANGED chan
    /\ UNCHANGED <<rules, fs>>

RunSearch ==
    /\ \E q \in Queries : run_search(q)
    /\ UNCHANGED <<shellVars, termVars, focus, boxVars, tabVars>>

(***************************************************************************)
(* The worker thread (lines 496-524) running search_in_dir_stream_with_fs  *)
(* (lines 589-680).  Each action holds at most one load of the shared      *)
(* atomic; a send is taken in the step of the load that precedes it (the   *)
(* channel is unbounded and only its own consumer reads it).               *)
(***************************************************************************)
should_continue(g) == search_cancel = g

\* search_in_dir_stream_with_fs returns: its locals (stack, iterators, the
\* open file) are dropped, batch and total of the thread's closure remain
Returned(w) ==
    [IdleWorker EXCEPT !.pc = "flush", !.query = w.query, !.batch = w.batch,
                       !.total = w.total, !.cancelled = w.cancelled,
                       !.sent_after = w.sent_after]

\* the walk returns because a load saw another generation
Cancelled(w) == [Returned(w) EXCEPT !.cancelled = TRUE]

Send(g, msg) ==
    chan' = [chan EXCEPT ![g] = Append(@, msg)]

\* Push that sends the batch once it holds more than BatchSize results
Push_FullOnePast(g, w, r, next_pc) ==
    IF search_cancel # g
    THEN /\ worker' = [worker EXCEPT ![g] = Cancelled(w)]
         /\ UNCHANGED chan
    ELSE LET batch == Append(w.batch, r)
             total == w.total + 1
             full == Len(batch) > BatchSize
             keep == total < rules.search_limit
             w1 == [w EXCEPT !.batch = IF full THEN <<>> ELSE batch,
                             !.total = total, !.pc = next_pc]
         IN /\ worker' = [worker EXCEPT ![g] = IF keep THEN w1 ELSE Returned(w1)]
            /\ IF full THEN Send(g, Batch(g, batch)) ELSE UNCHANGED chan

\* the push closure (lines 505-516), applied to result r by the worker in
\* local state w; next_pc is where the walk goes on when push returns true
Push(g, w, r, next_pc) ==
    IF search_cancel # g
    THEN /\ worker' = [worker EXCEPT ![g] = Cancelled(w)]
         /\ UNCHANGED chan
    ELSE LET batch == Append(w.batch, r)
             total == w.total + 1
             full == Len(batch) >= BatchSize
             keep == total < rules.search_limit
             w1 == [w EXCEPT !.batch = IF full THEN <<>> ELSE batch,
                             !.total = total, !.pc = next_pc]
         IN /\ worker' = [worker EXCEPT ![g] = IF keep THEN w1 ELSE Returned(w1)]
            /\ IF full THEN Send(g, Batch(g, batch)) ELSE UNCHANGED chan

\* while let Some(dir) = stack.pop(): should_continue, read_dir
WalkPop(g) ==
    LET w == worker[g] IN
    /\ w.pc = "pop"
    /\ IF w.stack = <<>>
       THEN worker' = [worker EXCEPT ![g] = Returned(w)]
       ELSE LET top == w.stack[Len(w.stack)]
                rest == SubSeq(w.stack, 1, Len(w.stack) - 1)
            IN IF ~should_continue(g)
               THEN worker' = [worker EXCEPT ![g] = Cancelled(w)]
               ELSE IF ~top.node.ok
               THEN worker' = [worker EXCEPT ![g].stack = rest]
               ELSE worker' = [worker EXCEPT ![g] =
                        [w EXCEPT !.stack = rest, !.dir = top.path,
                                  !.entries = top.node.children, !.pc = "entry"]]
    /\ UNCHANGED <<chan>>

\* for entry in read.flatten(): should_continue, directory or file
WalkEntry(g) ==
    LET w == worker[g] IN
    /\ w.pc = "entry"
    /\ IF w.entries = <<>>
       THEN worker' = [worker EXCEPT ![g].pc = "pop"]
       ELSE IF ~should_continue(g)
       THEN worker' = [worker EXCEPT ![g] = Cancelled(w)]
       ELSE LET entry == Head(w.entries)
                path == Append(w.dir, entry.name)
                w1 == [w EXCEPT !.entries = Tail(w.entries)]
            IN IF entry.is_dir
               THEN IF should_skip_dir(entry.name, rules)
                    THEN worker' = [worker EXCEPT ![g] = w1]
                    ELSE worker' = [worker EXCEPT ![g] =
                            [w1 EXCEPT !.stack = Append(w.stack, [path |-> path, node |-> entry])]]
               ELSE IF should_skip_file(entry.name, rules)
                    THEN worker' = [worker EXCEPT ![g] = w1]
                    ELSE worker' = [worker EXCEPT ![g] =
                            [w1 EXCEPT !.path = path, !.entry = entry, !.idx = 0,
                                       !.pc = IF Contains(to_lowercase(entry.name), to_ascii_lowercase(w.query))
                                              THEN "push_name" ELSE "open"]]
    /\ UNCHANGED <<chan>>

\* push(SearchResult { line: 0, is_filename: true })
WalkPushName(g) ==
    LET w == worker[g] IN
    /\ w.pc = "push_name"
    /\ Push(g, w, SearchResult(g, w.path, 0, TRUE), "open")

\* WalkOpen without the test of the size (lines 643-647)
WalkOpen_NoSizeTest(g) ==
    LET w == worker[g] IN
    /\ w.pc = "open"
    /\ IF ~w.entry.ok
       THEN worker' = [worker EXCEPT ![g].pc = "entry"]
       ELSE IF ~should_continue(g)
       THEN worker' = [worker EXCEPT ![g] = Cancelled(w)]
       ELSE IF w.entry.nul
       THEN worker' = [worker EXCEPT ![g].pc = "entry"]
       ELSE worker' = [worker EXCEPT ![g].pc = "line"]
    /\ UNCHANGED <<chan>>

\* open_file, should_continue, metadata and the 512-byte peek
WalkOpen(g) ==
    LET w == worker[g] IN
    /\ w.pc = "open"
    /\ IF ~w.entry.ok
       THEN worker' = [worker EXCEPT ![g].pc = "entry"]
       ELSE IF ~should_continue(g)
       THEN worker' = [worker EXCEPT ![g] = Cancelled(w)]
       ELSE IF w.entry.size > rules.max_file_kb * 1024
       THEN worker' = [worker EXCEPT ![g].pc = "entry"]
       ELSE IF w.entry.nul
       THEN worker' = [worker EXCEPT ![g].pc = "entry"]
       ELSE worker' = [worker EXCEPT ![g].pc = "line"]
    /\ UNCHANGED <<chan>>

\* for (idx, line) in reader.lines().enumerate(): should_continue, match,
\* push(SearchResult { line: idx + 1, is_filename: false }).  The load of
\* should_continue and the load inside push are taken in one step: nothing
\* is sent or shared between them.
WalkLine(g) ==
    LET w == worker[g] IN
    /\ w.pc = "line"
    /\ IF w.idx >= Len(w.entry.lines)
       THEN /\ worker' = [worker EXCEPT ![g].pc = "entry"]
            /\ UNCHANGED chan
       ELSE IF ~should_continue(g)
       THEN /\ worker' = [worker EXCEPT ![g] = Cancelled(w)]
            /\ UNCHANGED chan
       ELSE LET line == w.entry.lines[w.idx + 1] IN
            IF Contains(to_ascii_lowercase(line), to_ascii_lowercase(w.query))
            THEN Push(g, [w EXCEPT !.idx = w.idx + 1],
                      SearchResult(g, w.path, w.idx + 1, FALSE), "line")
            ELSE /\ worker' = [worker EXCEPT ![g].idx = w.idx + 1]
                 /\ UNCHANGED chan

\* WorkerFlush without the is_empty test of line 519
WorkerFlush_SendsEmpty(g) ==
    LET w == worker[g] IN
    /\ w.pc = "flush"
    /\ worker' = [worker EXCEPT ![g] =
            [w EXCEPT !.pc = "done", !.batch = <<>>,
                      !.sent_after = IF w.cancelled THEN @ + 1 ELSE @]]
    /\ Send(g, Batch(g, w.batch))

\* after the walk: send what is left of the batch (lines 519-522)
WorkerFlush(g) ==
    LET w == worker[g] IN
    /\ w.pc = "flush"
    /\ worker' = [worker EXCEPT ![g] =
            [w EXCEPT !.pc = "done", !.batch = <<>>,
                      !.sent_after = IF w.cancelled /\ w.batch # <<>> THEN @ + 1 ELSE @]]
    /\ IF w.batch # <<>> THEN Send(g, Batch(g, w.batch)) ELSE UNCHANGED chan

\* WorkerDone of a thread that ends without the send of line 523
WorkerDone_NoSend(g) ==
    LET w == worker[g] IN
    /\ w.pc = "done"
    /\ worker' = [worker EXCEPT ![g] = [w EXCEPT !.pc = "exited"]]
    /\ UNCHANGED chan

\* the final Done (line 523); the thread ends and drops tx
WorkerDone(g) ==
    LET w == worker[g] IN
    /\ w.pc = "done"
    /\ worker' = [worker EXCEPT ![g] =
            [w EXCEPT !.pc = "exited",
                      !.sent_after = IF w.cancelled THEN @ + 1 ELSE @]]
    /\ Send(g, Done(g))

WorkerStep(g) ==
    /\ \/ WalkPop(g)
       \/ WalkEntry(g)
       \/ WalkPushName(g)
       \/ WalkOpen(g)
       \/ WalkLine(g)
       \/ WorkerFlush(g)
       \/ WorkerDone(g)
    /\ UNCHANGED <<search_generation, search_cancel, search_pending,
                   search_results, rules, consumer, fs>>

(***************************************************************************)
(* The consumer task (lines 526-568): one message per step.                *)
(***************************************************************************)
\* OnBatch without the generation test of line 533
OnBatch_NoGenerationTest(generation_id, results) ==
    IF Len(search_results) >= rules.search_limit
    THEN UNCHANGED <<search_results, search_pending>>
    ELSE LET space == rules.search_limit - Len(search_results)
             kept == IF Len(results) > space THEN Take(results, space) ELSE results
         IN /\ search_results' = search_results \o kept
            /\ search_pending' = TRUE

\* OnBatch that drops only the batches of later generations
OnBatch_TakesOlder(generation_id, results) ==
    IF search_generation < generation_id
    THEN UNCHANGED <<search_results, search_pending>>
    ELSE IF Len(search_results) >= rules.search_limit
    THEN UNCHANGED <<search_results, search_pending>>
    ELSE LET space == rules.search_limit - Len(search_results)
             kept == IF Len(results) > space THEN Take(results, space) ELSE results
         IN /\ search_results' = search_results \o kept
            /\ search_pending' = TRUE

\* OnBatch without the cap of lines 536-545
OnBatch_NoCap(generation_id, results) ==
    IF search_generation # generation_id
    THEN UNCHANGED <<search_results, search_pending>>
    ELSE /\ search_results' = search_results \o results
         /\ search_pending' = TRUE

\* SearchMessage::Batch(generation_id, results) (lines 532-554)
OnBatch(generation_id, results) ==
    IF search_generation # generation_id
    THEN UNCHANGED <<search_results, search_pending>>
    ELSE IF Len(search_results) >= rules.search_limit
    THEN UNCHANGED <<search_results, search_pending>>
    ELSE LET space == rules.search_limit - Len(search_results)
             kept == IF Len(results) > space THEN Take(results, space) ELSE results
         IN /\ search_results' = search_results \o kept
            /\ search_pending' = TRUE

\* SearchMessage::Done(generation_id) (lines 555-560)
OnDone(generation_id) ==
    IF search_generation = generation_id
    THEN /\ search_pending' = FALSE
         /\ UNCHANGED search_results
    ELSE UNCHANGED <<search_results, search_pending>>

ConsumerRecv(g) ==
    /\ consumer[g] = "running"
    /\ chan[g] # <<>>
    /\ LET message == Head(chan[g]) IN
       /\ chan' = [chan EXCEPT ![g] = Tail(@)]
       /\ IF message.type = "Batch"
          THEN /\ OnBatch(message.gen, message.results)
               /\ UNCHANGED consumer
          ELSE /\ OnDone(message.gen)
               /\ consumer' = [consumer EXCEPT ![g] = "ended"]
    /\ UNCHANGED <<search_generation, search_cancel, rules, worker, fs>>

WorkerAct == (\E g \in Gens : WorkerStep(g)) /\ UNCHANGED <<shellVars, termVars, focus, boxVars, tabVars>>

ConsumerAct == (\E g \in Gens : ConsumerRecv(g)) /\ UNCHANGED <<shellVars, termVars, focus, boxVars, tabVars>>

NextSearch == RunSearch \/ WorkerAct \/ ConsumerAct

InitSearch ==
    /\ SearchInit /\ BoxInit /\ TabIdle /\ TermIdle /\ ShellIdle
    /\ focus = "sidebar"

SpecSearch == InitSearch /\ [][NextSearch]_vars


(***************************************************************************)
(* The sidebar at rest, for the specifications of the tab view.            *)
(***************************************************************************)
SidebarIdle ==
    /\ BoxInit
    /\ search_generation = 0
    /\ search_cancel = 0
    /\ search_pending = FALSE
    /\ search_results = <<>>
    /\ rules = load_rules(CHOOSE parsed \in RuleFiles : parsed.search_limit = MaxLimit)
    /\ worker = [g \in Gens |-> IdleWorker]
    /\ chan = [g \in Gens |-> <<>>]
    /\ consumer = [g \in Gens |-> "none"]
    /\ fs = TreeSmall

(***************************************************************************)
(* SpecEdit: editing the search box of the sidebar and the command input   *)
(* of the tab view with the keyboard.                                      *)
(***************************************************************************)
Modifiers == {<<FALSE, FALSE>>, <<TRUE, FALSE>>, <<FALSE, TRUE>>, <<TRUE, TRUE>>}

EditKeys ==
    {Typed("a"), Typed("/"), Key("space"), Key("home"), Key("end"), Key("tab"),
     KeyEvent("a", None, TRUE, FALSE)}
    \cup {KeyEvent(k, None, m[1], m[2]) : k \in {"backspace", "left", "right"}, m \in Modifiers}

InitEdit ==
    /\ TermIdle /\ ShellIdle
    /\ focus \in {"sidebar", "tab"}
    /\ SidebarIdle
    /\ TabNew([NoHistory EXCEPT !.app_log = SmallLog], DefaultPath)

EditTabKey == \E ev \in EditKeys : TabKey(ev)

EditSidebarKey == \E ev \in EditKeys : SidebarKey(ev)

NextEdit == EditTabKey \/ EditSidebarKey \/ SidebarSetMode

SpecEdit == InitEdit /\ [][NextEdit]_vars

(***************************************************************************)
(* SpecHistory: commands run from an empty history.                        *)
(***************************************************************************)
PromptChunks == { <<"P", "S", " ", "a", ">">>, <<">", ">", "\r", "\n">> }

HistoryKeys == {Typed("a"), Typed("b"), Key("enter"), Key("backspace")}

InitHistory ==
    /\ TermIdle /\ ShellIdle
    /\ focus = "tab"
    /\ SidebarIdle
    /\ \E h \in {NoHistory, NoAppDir} : TabNew(h, DefaultPath)

\* the commands typed here have at most MaxCommandLen scalars
MaxCommandLen == 1

HistoryKey == \E ev \in HistoryKeys : TabKey(ev) /\ Len(tab'.input) <= MaxCommandLen

HistoryOutput == \E chunk \in PromptChunks : TabOutput(chunk)

NextHistory == HistoryKey \/ HistoryOutput

SpecHistory == InitHistory /\ [][NextHistory]_vars

(***************************************************************************)
(* SpecStartup: the startup merge of the history files, and commands run   *)
(* after it.                                                               *)
(***************************************************************************)
StartupKeys == {Typed("a"), Key("enter")}

InitStartup ==
    /\ TermIdle /\ ShellIdle
    /\ focus = "tab"
    /\ SidebarIdle
    /\ \E h \in StartupEnvs : TabNew(h, DefaultPath)

StartupKey == \E ev \in StartupKeys : TabKey(ev)

StartupOutput == \E chunk \in PromptChunks : TabOutput(chunk)

NextStartup == StartupKey \/ StartupOutput

SpecStartup == InitStartup /\ [][NextStartup]_vars

(***************************************************************************)
(* SpecSuggest: suggestions while typing, with a history loaded from the   *)
(* application log.                                                        *)
(***************************************************************************)
SuggestLogs ==
    { << <<"a", "b">>, <<"a", "a">>, <<"a", "/", "b">>, <<"b">> >>,
      << <<"a", "a">>, <<"a", "b">>, <<"a", "a">> >>,
      <<>> }

SuggestKeys ==
    {Typed("a"), Typed("b"), Typed("/"), Key("space"), Key("backspace"), Key("tab"),
     Key("left"), Key("right")}

InitSuggest ==
    /\ TermIdle /\ ShellIdle
    /\ focus = "tab"
    /\ SidebarIdle
    /\ \E log \in SuggestLogs : \E p \in PathEnvs :
          TabNew([NoHistory EXCEPT !.app_log = log], p)

SuggestKey == \E ev \in SuggestKeys : TabKey(ev)

NextSuggest == SuggestKey \/ PathChange

SpecSuggest == InitSuggest /\ [][NextSuggest]_vars

(***************************************************************************)
(* SpecStrip: strip_ansi applied to a chunk of terminal output.            *)
(***************************************************************************)
MaxAnsiLen == 5

AnsiChars == {"ESC", "[", "]", "BEL", "\\", "a", "1"}

AnsiInputs == UNION {[1..n -> AnsiChars] : n \in 0..MaxAnsiLen}

AppIdle == focus = "tab" /\ SidebarIdle /\ TabIdle

InitStrip ==
    /\ AppIdle /\ ShellIdle
    /\ BufferIdle /\ ParserIdle /\ SessionIdle
    /\ ansi_input \in AnsiInputs
    /\ ansi_output = None

\* strip_ansi(input) returns
StripAnsi ==
    /\ ansi_output = None
    /\ ansi_output' = Some(strip_ansi(ansi_input))
    /\ UNCHANGED <<shellVars, focus, boxVars, searchVars, tabVars, ansi_input, buffer, fed, parser,
                   parser_data, performed, session>>

NextStrip == StripAnsi

SpecStrip == InitStrip /\ [][NextStrip]_vars

(***************************************************************************)
(* SpecParser: TerminalParser::process feeding a SemanticPerformer.  The   *)
(* vte parser is modelled as far as plain text and OSC strings go: an OSC  *)
(* string is ended by BEL or by ESC, and its payload reaches osc_dispatch  *)
(* split at every ';'.                                                     *)
(***************************************************************************)
\* str::split(';') of the OSC payload, as vte hands it to osc_dispatch
RECURSIVE SplitParams(_)
SplitParams(raw) ==
    IF \A i \in 1..Len(raw) : raw[i] # ";" THEN <<raw>>
    ELSE LET k == CHOOSE i \in 1..Len(raw) :
                     raw[i] = ";" /\ \A j \in 1..(i - 1) : raw[j] # ";"
         IN <<SubSeq(raw, 1, k - 1)>> \o SplitParams(Drop(raw, k))

Call(name, arg, printed) == [call |-> name, arg |-> arg, printed |-> printed]

\* SemanticPerformer::osc_dispatch: the line it prints, if any
osc_dispatch(params) ==
    IF Len(params) > 0 /\ StartsWith(params[1], <<"1", "3", "3", ";">>)
    THEN LET cmd == Drop(params[1], 4)
         IN CASE cmd = <<"A">> -> Some("Prompt started")
              [] cmd = <<"B">> -> Some("Command started")
              [] cmd = <<"C">> -> Some("Command output started")
              [] cmd = <<"D">> -> Some("Command finished")
              [] OTHER -> None
    ELSE None

\* TerminalParser::new
TerminalParser_new == [state |-> "Ground", osc_raw |-> <<>>]

\* Parser::advance(performer, byte): the parser afterwards and the calls
\* made on the performer
advance(p, byte) ==
    CASE p.state = "Ground" ->
            IF byte = "ESC" THEN [parser |-> [p EXCEPT !.state = "Escape"], calls |-> <<>>]
            ELSE IF byte \in {"BEL", "NUL"}
            THEN [parser |-> p, calls |-> <<Call("execute", byte, None)>>]
            ELSE [parser |-> p, calls |-> <<Call("print", byte, None)>>]
      [] p.state = "Escape" ->
            IF byte = "]"
            THEN [parser |-> [state |-> "OscString", osc_raw |-> <<>>], calls |-> <<>>]
            ELSE IF byte = "ESC" THEN [parser |-> p, calls |-> <<>>]
            ELSE IF byte \in {"BEL", "NUL"}
            THEN [parser |-> p, calls |-> <<Call("execute", byte, None)>>]
            ELSE [parser |-> [p EXCEPT !.state = "Ground"],
                  calls |-> <<Call("esc_dispatch", byte, None)>>]
      [] p.state = "OscString" ->
            IF byte \in {"BEL", "ESC"}
            THEN [parser |-> [state |-> IF byte = "ESC" THEN "Escape" ELSE "Ground",
                              osc_raw |-> <<>>],
                  calls |-> <<Call("osc_dispatch", SplitParams(p.osc_raw),
                                   osc_dispatch(SplitParams(p.osc_raw)))>>]
            ELSE IF byte = "NUL" THEN [parser |-> p, calls |-> <<>>]
            ELSE [parser |-> [p EXCEPT !.osc_raw = Append(@, byte)], calls |-> <<>>]

\* TerminalParser::process: advance over every byte of data
RECURSIVE process(_, _)
process(p, data) ==
    IF data = <<>> THEN [parser |-> p, calls |-> <<>>]
    ELSE LET first == advance(p, Head(data))
             rest == process(first.parser, Tail(data))
         IN [parser |-> rest.parser, calls |-> first.calls \o rest.calls]

\* an OSC sequence with the payload and the terminator given
Osc(payload, terminator) == <<"ESC", "]">> \o payload \o terminator

OscTerminators == {<<"BEL">>, <<"ESC", "\\">>}

SemanticMarker(letter) == <<"1", "3", "3", ";", letter>>

OscPayloads ==
    {SemanticMarker(letter) : letter \in {"A", "B", "C", "D", "a"}}
    \cup {<<"1", "3", "3">>, <<"1", ";", "A">>, <<>>}

ParserInputs ==
    {before \o Osc(payload, terminator) \o after :
        before \in {<<>>, <<"a">>}, after \in {<<>>, <<"a">>},
        payload \in OscPayloads, terminator \in OscTerminators}

InitParser ==
    /\ AppIdle /\ ShellIdle
    /\ StripIdle /\ BufferIdle /\ SessionIdle
    /\ parser = TerminalParser_new
    /\ parser_data \in ParserInputs
    /\ performed = <<>>

\* one call of process with the next byte, or with all the bytes left
Process ==
    /\ parser_data # <<>>
    /\ \E n \in {1, Len(parser_data)} :
          \E r \in {process(parser, Take(parser_data, n))} :
             /\ parser' = r.parser
             /\ performed' = performed \o r.calls
             /\ parser_data' = Drop(parser_data, n)
    /\ UNCHANGED <<shellVars, focus, boxVars, searchVars, tabVars, ansi_input, ansi_output, buffer, fed,
                   session>>

NextParser == Process

SpecParser == InitParser /\ [][NextParser]_vars

(***************************************************************************)
(* SpecBuffer: a TerminalBuffer fed by push_line and push_output.          *)
(***************************************************************************)
MaxScrollback == 2

MaxFed == 3

\* TerminalBuffer::new; panicked: a call on the buffer has panicked
TerminalBuffer_new(max_scrollback) ==
    [lines |-> <<>>, max_scrollback |-> max_scrollback, panicked |-> FALSE]

\* TerminalBuffer::push_line; Vec::remove(0) panics on an empty vector
push_line(b, line) ==
    IF Len(b.lines) >= b.max_scrollback
    THEN IF b.lines = <<>> THEN [b EXCEPT !.panicked = TRUE]
         ELSE [b EXCEPT !.lines = Append(Tail(b.lines), line)]
    ELSE [b EXCEPT !.lines = Append(b.lines, line)]

\* the loop of push_output over the parts after the first
RECURSIVE PushParts(_, _)
PushParts(b, parts) ==
    IF parts = <<>> \/ b.panicked THEN b
    ELSE PushParts(push_line(b, Head(parts)), Tail(parts))

\* TerminalBuffer::push_output
push_output(b, chunk) ==
    LET parts == SplitLines(NormalizeNewlines(strip_ansi(chunk)))
        first == Head(parts)
    IN PushParts(IF b.lines = <<>> THEN [b EXCEPT !.lines = <<first>>]
                 ELSE [b EXCEPT !.lines[Len(b.lines)] = @ \o first],
                 Tail(parts))

\* the lines fed so far once chunk has been fed: its first part continues
\* the line in progress, each further part is a new line
FedOutput(chunk) ==
    LET parts == SplitLines(NormalizeNewlines(strip_ansi(chunk)))
    IN IF fed = <<>> THEN parts
       ELSE [fed EXCEPT ![Len(fed)] = @ \o Head(parts)] \o Tail(parts)

BufferLines == {<<"a">>, <<"b">>}

BufferChunks ==
    {<<>>, <<"a">>, <<"\n">>, <<"a", "\n", "b">>, <<"b", "\r", "\n">>, <<"ESC", "[", "a", "b">>}

InitBuffer ==
    /\ AppIdle /\ ShellIdle
    /\ StripIdle /\ ParserIdle /\ SessionIdle
    /\ \E max_scrollback \in 0..MaxScrollback : buffer = TerminalBuffer_new(max_scrollback)
    /\ fed = <<>>

PushLine ==
    /\ ~buffer.panicked
    /\ Len(fed) < MaxFed
    /\ \E line \in BufferLines :
          /\ buffer' = push_line(buffer, line)
          /\ fed' = Append(fed, line)
    /\ UNCHANGED <<shellVars, focus, boxVars, searchVars, tabVars, ansi_input, ansi_output, parser,
                   parser_data, performed, session>>

PushOutput ==
    /\ ~buffer.panicked
    /\ \E chunk \in BufferChunks :
          /\ Len(FedOutput(chunk)) <= MaxFed
          /\ \A i \in 1..Len(FedOutput(chunk)) : Len(FedOutput(chunk)[i]) <= MaxFed
          /\ buffer' = push_output(buffer, chunk)
          /\ fed' = FedOutput(chunk)
    /\ UNCHANGED <<shellVars, focus, boxVars, searchVars, tabVars, ansi_input, ansi_output, parser,
                   parser_data, performed, session>>

NextBuffer == PushLine \/ PushOutput

SpecBuffer == InitBuffer /\ [][NextBuffer]_vars

(***************************************************************************)
(* SpecOutput: commands are run and output arrives from the pty.           *)
(***************************************************************************)
OutputChunks ==
    { <<"P", "S", " ", "a", ">">>, <<">", ">", "\r", "\n">>, <<"b">>, <<"a", "\r", "\n">>,
      <<"b", "\r", "\n", "P", "S", " ", "b", ">", "\r", "\n">> }

OutputKeys == {Typed("a"), Key("enter")}

\* the blocks considered hold at most MaxOutputLen lines of at most
\* MaxOutputLen characters, and at most MaxBlocks commands are run
MaxOutputLen == 1

MaxBlocks == 2

InitOutput ==
    /\ TermIdle /\ ShellIdle
    /\ focus = "tab"
    /\ SidebarIdle
    /\ TabNew(NoHistory, DefaultPath)

OutputKey ==
    \E ev \in OutputKeys :
        TabKey(ev) /\ Len(tab'.input) <= MaxCommandLen /\ Len(pushed') <= MaxBlocks

OutputArrives ==
    /\ \E chunk \in OutputChunks : TabOutput(chunk)
    /\ \A i \in 1..Len(tab'.blocks) :
          /\ Len(tab'.blocks[i].output_lines) <= MaxOutputLen
          /\ \A j \in 1..Len(tab'.blocks[i].output_lines) :
                Len(tab'.blocks[i].output_lines[j]) <= MaxOutputLen

NextOutput == OutputKey \/ OutputArrives

SpecOutput == InitOutput /\ [][NextOutput]_vars

(***************************************************************************)
(* SpecSession: a terminal session is created, by a direct call of         *)
(* TerminalPty::new_in_path or from a tab that has no pty yet.             *)
(***************************************************************************)
\* the fallible calls of new_in_path, in the order it makes them
PtyCalls == <<"openpty", "spawn_command", "try_clone_reader", "take_writer">>

\* which of them fails in this run, if any
PtyFailures == Range(PtyCalls) \cup {"none"}

\* TerminalPty::new_in_path: every call is followed by `?`.  calls are the
\* calls made; pty is the TerminalPty returned, if one is
TerminalPty_new_in_path(fails) ==
    IF fails = "none"
    THEN [ok |-> TRUE, error |-> None, calls |-> PtyCalls, pty |-> TRUE]
    ELSE LET k == CHOOSE i \in 1..Len(PtyCalls) : PtyCalls[i] = fails
         IN [ok |-> FALSE, error |-> Some(fails), calls |-> SubSeq(PtyCalls, 1, k), pty |-> FALSE]

\* TabView::new_base
new_base(h, p) == [new(h, p, <<"~">>, None) EXCEPT !.pty = FALSE]

\* TabView::start_terminal_with_path; returns [t, result, calls], result
\* being "returned" or "panicked" (the expect on the Err of new_in_path)
start_terminal_with_path(t, cwd, git, fails) ==
    IF t.pty THEN [t |-> t, result |-> "returned", calls |-> <<>>]
    ELSE LET made == TerminalPty_new_in_path(fails) IN
         IF ~made.ok THEN [t |-> t, result |-> "panicked", calls |-> made.calls]
         ELSE [t |-> [t EXCEPT !.pty = TRUE, !.current_path = cwd, !.git_status = git,
                               !.blocks = <<>>, !.input = <<>>, !.cursor = 0,
                               !.history_open = FALSE, !.history_items = <<>>,
                               !.suggestions = <<>>, !.suggest_index = 0,
                               !.selection = None, !.selection_anchor = None,
                               !.pending_echo = None, !.input_visible = TRUE,
                               !.needs_git_refresh = FALSE],
               result |-> "returned", calls |-> made.calls]

\* what is known of the creation of a session
Session(caller, fails, result, error, calls) ==
    [caller |-> caller, fails |-> fails, result |-> result, error |-> error, calls |-> calls]

InitSession ==
    /\ TermIdle /\ ShellIdle
    /\ focus = "tab"
    /\ SidebarIdle
    /\ git_repo = None
    /\ path_env = DefaultPath
    /\ \E h \in {NoHistory, [NoHistory EXCEPT !.app_log = SmallLog]} :
          /\ tab = new_base(h, DefaultPath)
          /\ history_log = h.app_log
    /\ pty_out = <<>>
    /\ emitted = <<>>
    /\ pushed = <<>>
    /\ prompt_seen = FALSE

\* some code calls TerminalPty::new_in_path and gets its Result
NewInPath ==
    /\ session = None
    /\ \E fails \in PtyFailures : \E made \in {TerminalPty_new_in_path(fails)} :
          session' = Some(Session("direct", fails, IF made.ok THEN "ok" ELSE "err",
                                  made.error, made.calls))
    /\ UNCHANGED <<shellVars, focus, boxVars, searchVars, tabVars, ansi_input, ansi_output, buffer, fed,
                   parser, parser_data, performed>>

\* new_with_path, or the workspace opening a repository in a welcome tab
StartTerminal ==
    /\ session = None
    /\ \E fails \in PtyFailures : \E cwd \in {<<"~">>, <<"a">>} :
          \E r \in {start_terminal_with_path(tab, cwd, git_repo, fails)} :
             /\ tab' = r.t
             /\ session' = Some(Session("tab", fails,
                                        IF r.result = "panicked" THEN "panic"
                                        ELSE IF r.t.pty THEN "ok" ELSE "err",
                                        None, r.calls))
    /\ UNCHANGED <<shellVars, focus, boxVars, searchVars, history_log, path_env, git_repo, pty_out,
                   emitted, pushed, prompt_seen, ansi_input, ansi_output, buffer, fed,
                   parser, parser_data, performed>>

\* key events on the tab, unless the application has panicked
SessionKey ==
    /\ IF session = None THEN TRUE ELSE session[1].result # "panic"
    /\ \E ev \in StartupKeys : TabKey(ev)

NextSession == NewInPath \/ StartTerminal \/ SessionKey

SpecSession == InitSession /\ [][NextSession]_vars

(***************************************************************************)
(* The recent repositories (ui/recent.rs).  A path is a number, a time is  *)
(* the number of seconds chrono reports.  recent.json holds a list of      *)
(* RecentEntry; a file that is missing, unreadable or not valid JSON reads *)
(* as the empty list.                                                      *)
(***************************************************************************)
RecentCap == 20

\* one path more than the list keeps
MaxPaths == RecentCap + 1

MaxNow == 2

\* the add_recent calls of one run
MaxAdds == 3

RecentEntry(path, last_opened) == [path |-> path, last_opened |-> last_opened]

load_recent(file) == file

\* the position of the first entry with this path, 0 if there is none
FindPath(items, path) ==
    IF \E i \in 1..Len(items) : items[i].path = path
    THEN CHOOSE i \in 1..Len(items) :
            /\ items[i].path = path
            /\ \A j \in 1..(i - 1) : items[j].path # path
    ELSE 0

\* item goes behind every entry that is not older than it
InsertByLastOpened(sorted, item) ==
    LET keep == {i \in 1..Len(sorted) : sorted[i].last_opened >= item.last_opened}
        n == IF keep = {} THEN 0 ELSE CHOOSE i \in keep : \A j \in keep : j <= i
    IN  Take(sorted, n) \o <<item>> \o Drop(sorted, n)

\* items.sort_by(|a, b| b.last_opened.cmp(&a.last_opened)): a stable sort
RECURSIVE SortByLastOpened(_)
SortByLastOpened(items) ==
    IF items = <<>> THEN <<>>
    ELSE InsertByLastOpened(SortByLastOpened(Take(items, Len(items) - 1)),
                            items[Len(items)])

add_recent_NoTruncate(file, path, now) ==
    LET items == load_recent(file)
        i == FindPath(items, path)
        touched == IF i # 0 THEN [items EXCEPT ![i].last_opened = now]
                   ELSE Append(items, RecentEntry(path, now))
    IN  SortByLastOpened(touched)

add_recent(file, path, now) ==
    LET items == load_recent(file)
        i == FindPath(items, path)
        touched == IF i # 0 THEN [items EXCEPT ![i].last_opened = now]
                   ELSE Append(items, RecentEntry(path, now))
    IN  Take(SortByLastOpened(touched), RecentCap)

\* the paths a repository is opened from: one that is not in the file, the
\* first and the last of the file
RecentPaths ==
    LET used == {recent_file[i].path : i \in 1..Len(recent_file)}
                   \cup {recent[i].path : i \in 1..Len(recent)}
        fresh == {p \in 1..MaxPaths : \A q \in used : q < p}
    IN  (IF fresh = {} THEN {} ELSE {CHOOSE p \in fresh : \A q \in fresh : p <= q})
           \cup (IF recent_file = <<>> THEN {}
                 ELSE {recent_file[1].path, recent_file[Len(recent_file)].path})

\* the file after the paths 1..n have been opened in turn and saved, the
\* first half of them within second 0 and the others within second 1: the
\* sort puts the later second first and keeps the order within a second
Opened(n) ==
    LET old == n \div 2
    IN  [i \in 1..n |-> IF i <= n - old THEN RecentEntry(old + i, 1)
                        ELSE RecentEntry(i - (n - old), 0)]

\* nothing has been opened yet, or RecentCap - 1 repositories have been
InitRecent ==
    /\ AppIdle /\ TermIdle
    /\ recent_file \in {<<>>, Opened(RecentCap - 1)}
    /\ recent = recent_file
    /\ opened = 0
    /\ tab_bar = None
    /\ workspace = None
    /\ stream = <<>>
    /\ whole = None
    /\ reader = NoReader

\* open_repository_in_tab calls add_recent(path); the clock is the wall
\* clock, which may stand still or be set back; save_recent may fail, and
\* its error is dropped
AddRecent ==
    /\ opened < MaxAdds
    /\ opened' = opened + 1
    /\ \E path \in RecentPaths, now \in 0..MaxNow, saved \in BOOLEAN :
          \E items \in {add_recent(recent_file, path, now)} :
             /\ recent' = items
             /\ recent_file' = IF saved THEN items ELSE recent_file
    /\ UNCHANGED <<focus, boxVars, searchVars, tabVars, termVars, tab_bar, workspace, stream, whole, reader>>

NextRecent == AddRecent

SpecRecent == InitRecent /\ [][NextRecent]_vars

(***************************************************************************)
(* The search under fair scheduling: a worker is an operating system       *)
(* thread and runs as long as it has a step to take, a consumer is a task  *)
(* of the UI executor and is polled whenever its channel holds a message.  *)
(* Nothing makes the user press Enter, so RunSearch stays unfair.          *)
(***************************************************************************)
Worker(g) == WorkerStep(g) /\ UNCHANGED <<shellVars, termVars, focus, boxVars, tabVars>>

Consumer(g) == ConsumerRecv(g) /\ UNCHANGED <<shellVars, termVars, focus, boxVars, tabVars>>

SpecSearchFair ==
    /\ InitSearch
    /\ [][NextSearch]_vars
    /\ \A g \in Gens : WF_vars(Worker(g)) /\ WF_vars(Consumer(g))

(***************************************************************************)
(* SpecBlocks: commands are typed and run, keys are pressed while a        *)
(* command runs, output arrives in chunks of several lines and the         *)
(* repository changes outside the application.                             *)
(***************************************************************************)
\* the commands typed hold at most MaxTyped characters; the blocks looked
\* at are at most MaxBlocks and hold at most MaxBlockLines lines in all, of
\* at most MaxLineLen characters each
MaxTyped == 4

MaxBlockLines == 2

MaxLineLen == 1

GitStates == {None, Some(GitStatus(<<"m">>, 1, 1, 0, 0))}

BlockKeys ==
    {Typed("a"), Typed(">"), Typed("P"), Typed("S"), Key("space"),
     Key("enter"), Key("escape"), Key("backspace"), KeyEvent("c", None, TRUE, FALSE)}

BlockChunks ==
    { <<"a">>, <<"a", "\n", "a">>, <<">", ">">>,
      <<"P", "S", " ", ">">>, <<"P", "S", " ", "a", ">">> }

\* the commands typed and run
TypedCommands == {<<"a">>, <<"P", "S", " ", ">">>}

\* the input while they are typed
TypedInputs == {Take(c, n) : c \in TypedCommands, n \in 0..MaxTyped}

\* no longer than a typed command
IsShort(text) == \E c \in TypedCommands : Len(text) <= Len(c)

InitBlocks ==
    /\ TermIdle /\ ShellIdle
    /\ focus = "tab"
    /\ SidebarIdle
    /\ path_env = DefaultPath
    /\ git_repo \in GitStates
    /\ tab = new(NoAppDir, DefaultPath, <<"~">>, git_repo)
    /\ history_log = <<>>
    /\ pty_out = <<>>
    /\ emitted = <<>>
    /\ pushed = <<>>
    /\ prompt_seen = FALSE

RECURSIVE OutputSize(_)
OutputSize(blocks) ==
    IF blocks = <<>> THEN 0
    ELSE Len(blocks[1].output_lines) + OutputSize(Tail(blocks))

BlocksWithin(blocks) ==
    /\ Len(blocks) <= MaxBlocks
    /\ OutputSize(blocks) <= MaxBlockLines
    /\ \A i \in 1..Len(blocks) :
          \A j \in 1..Len(blocks[i].output_lines) :
             Len(blocks[i].output_lines[j]) <= MaxLineLen

BlocksKey ==
    \E ev \in BlockKeys :
        /\ TabKeyAny(ev)
        /\ Len(tab'.input) <= MaxTyped
        /\ IsShort(tab'.input) => tab'.input \in TypedInputs
        /\ BlocksWithin(tab'.blocks)
        /\ \A i \in 1..Len(pushed') : IsShort(pushed'[i]) => pushed'[i] \in TypedCommands

BlocksOutput == (\E chunk \in BlockChunks : TabOutput(chunk)) /\ BlocksWithin(tab'.blocks)

\* a commit, a checkout or an edit made outside the application
GitChange ==
    /\ \E g \in GitStates : g # git_repo /\ git_repo' = g
    /\ UNCHANGED <<shellVars, termVars, focus, boxVars, searchVars, tab, path_env,
                   history_log, pushed, prompt_seen, pty_out, emitted>>

NextBlocks == BlocksKey \/ BlocksOutput \/ GitChange

SpecBlocks == InitBlocks /\ [][NextBlocks]_vars

(***************************************************************************)
(* The reader of the pty: the thread of start_terminal_with_path reads     *)
(* the output of the shell into a buffer of 2048 bytes and sends what each *)
(* read returned as one chunk, so the output is cut wherever a read ends.  *)
(***************************************************************************)
\* the output of a command holds at most MaxStream characters
MaxStream == 4

\* plain output: no escape sequence, no carriage return, no line that is
\* the echo of the command or a prompt
StreamChars == {"a", "b", "\n"}

RECURSIVE Streams(_)
Streams(n) ==
   IF n = 0 THEN {<<>>}
   ELSE Streams(n - 1) \cup {Append(s, ch) : s \in {x \in Streams(n - 1) : Len(x) = n - 1}, ch \in StreamChars}

\* the view when the output starts: a new tab, or a tab in which the
\* command "c" has run and its echo has been swallowed
AfterCommand(t) == append_output(run_command(t, <<"c">>).t, <<"c", "\n">>, None).t

InitChunks ==
    /\ TermIdle
    /\ focus = "tab"
    /\ SidebarIdle
    /\ path_env = DefaultPath
    /\ git_repo = None
    /\ history_log = <<>> /\ pty_out = <<>> /\ emitted = <<>> /\ pushed = <<>>
    /\ prompt_seen = FALSE
    /\ recent_file = <<>> /\ recent = <<>> /\ opened = 0
    /\ tab_bar = None /\ workspace = None
    /\ reader = NoReader
    /\ \E t \in {new(NoAppDir, DefaultPath, <<"~">>, None)} :
          /\ tab \in {t, AfterCommand(t)}
          /\ stream \in Streams(MaxStream) \ {<<>>}
          /\ whole = Some(append_output(tab, stream, git_repo).t)

\* a read returns the next n characters, which are handed to append_output
\* as one chunk
Deliver ==
    /\ stream # <<>>
    /\ \E n \in 1..Len(stream) :
          /\ tab' = append_output(tab, Take(stream, n), git_repo).t
          /\ stream' = Drop(stream, n)
    /\ UNCHANGED <<focus, boxVars, searchVars, termVars, history_log, path_env, git_repo,
                   pty_out, emitted, pushed, prompt_seen,
                   recent_file, recent, opened, tab_bar, workspace, whole, reader>>

NextChunks == Deliver

SpecChunks == InitChunks /\ [][NextChunks]_vars

(***************************************************************************)
(* A tab in which git commands run: whole commands are committed by the    *)
(* input method in one key event, and the output holds the phrases by      *)
(* which git confirms a change of branch.                                  *)
(***************************************************************************)
\* the lines of the blocks looked at hold at most MaxPhraseLen characters
MaxPhraseLen == 14

GitCheckoutB == <<"g", "i", "t", " ", "c", "h", "e", "c", "k", "o", "u", "t", " ", "b">>

GitSwitchB == <<"G", "I", "T", " ", "S", "w", "i", "t", "c", "h", " ", "b">>

GitLog == <<"g", "i", "t", " ", "l", "o", "g">>

GitCommands == {GitCheckoutB, GitSwitchB, GitLog}

GitKeys == {KeyEvent("process", Some(c), FALSE, FALSE) : c \in GitCommands} \cup {Key("enter")}

AlreadyOn == <<"A", "l", "r", "e", "a", "d", "y", " ", "o", "n">>

HeadIsNowAt == <<"H", "E", "A", "D", " ", "i", "s", " ", "n", "o", "w", " ", "a", "t">>

GitChunks ==
    { AlreadyOn, <<"\n">> \o HeadIsNowAt, <<"P", "S", " ", "a", ">">> }

GitWithin(blocks) ==
    /\ Len(blocks) <= MaxBlocks
    /\ OutputSize(blocks) <= MaxBlockLines
    /\ \A i \in 1..Len(blocks) :
          \A j \in 1..Len(blocks[i].output_lines) :
             Len(blocks[i].output_lines[j]) <= MaxPhraseLen

InitGit == InitBlocks

GitKey ==
    \E ev \in GitKeys :
        /\ TabKeyAny(ev)
        /\ tab'.input \in {<<>>} \cup GitCommands
        /\ GitWithin(tab'.blocks)

GitOutput == (\E chunk \in GitChunks : TabOutput(chunk)) /\ GitWithin(tab'.blocks)

NextGit == GitKey \/ GitOutput \/ GitChange

SpecGit == InitGit /\ [][NextGit]_vars

(***************************************************************************)
(* The tab strip.  The TabBar holds the tabs drawn (their ids, in order)   *)
(* and the index of the highlighted one; the Workspace holds the views     *)
(* (their entity ids, in order) and the index of the one shown.  A tab and *)
(* its view carry the same number here: the n-th tab made.  Indices count  *)
(* from 0 as in the code.  An event emitted by a handler of the bar is     *)
(* delivered to the Workspace before the next input event is handled.      *)
(***************************************************************************)
\* at most MaxTabs tabs are open, and at most MaxMade tabs are ever made
MaxTabs == 4

MaxMade == 5

RemoveAt(s, index) == SubSeq(s, 1, index) \o SubSeq(s, index + 2, Len(s))

InsertAt(s, index, x) == SubSeq(s, 1, index) \o <<x>> \o SubSeq(s, index + 1, Len(s))

TabBar_new == [tabs |-> <<>>, active_tab |-> 0, next_tab_id |-> 1]

\* the new tab is the last one, at index len - 1 after the push
add_tab(b) ==
    [b EXCEPT !.tabs = Append(b.tabs, b.next_tab_id),
              !.next_tab_id = b.next_tab_id + 1,
              !.active_tab = Len(b.tabs)]

close_tab(b, index) ==
    IF Len(b.tabs) <= 1 \/ index >= Len(b.tabs) THEN b
    ELSE LET tabs == RemoveAt(b.tabs, index)
             clamped == IF b.active_tab >= Len(tabs) THEN Max(Len(tabs) - 1, 0)
                        ELSE b.active_tab
         IN  [b EXCEPT !.tabs = tabs,
                       !.active_tab = IF index < clamped THEN Max(clamped - 1, 0) ELSE clamped]

set_active(b, index) ==
    IF index < Len(b.tabs) THEN [b EXCEPT !.active_tab = index] ELSE b

move_index(index, from, to) ==
    IF index = from THEN to
    ELSE IF from < to /\ index > from /\ index <= to THEN index - 1
    ELSE IF from > to /\ index >= to /\ index < from THEN index + 1
    ELSE index

TabBarEvent(type, index, to) == [type |-> type, index |-> index, to |-> to]

\* the handlers of the bar return [b, emitted]
on_new_tab(b) == [b |-> b, emitted |-> <<TabBarEvent("NewTab", 0, 0)>>]

on_close_tab(b, index) ==
    [b |-> close_tab(b, index), emitted |-> <<TabBarEvent("Close", index, 0)>>]

on_activate_tab(b, index) ==
    [b |-> set_active(b, index), emitted |-> <<TabBarEvent("Activate", index, 0)>>]

\* the tab dragged from index from is dropped over index to
on_drag_end(b, from, to) ==
    IF from # to
    THEN [b |-> [b EXCEPT !.tabs = InsertAt(RemoveAt(b.tabs, from), to, b.tabs[from + 1]),
                          !.active_tab = move_index(b.active_tab, from, to)],
          emitted |-> <<TabBarEvent("Reorder", from, to)>>]
    ELSE [b |-> b, emitted |-> <<>>]

\* the Workspace before its first tab; made counts the views created
Workspace_empty == [tab_ids |-> <<>>, active_tab |-> 0, made |-> 0]

\* returns [w, b]: the Workspace and its TabBar afterwards
add_welcome_tab(w, b) ==
    [w |-> [w EXCEPT !.tab_ids = Append(w.tab_ids, w.made + 1),
                     !.made = w.made + 1,
                     !.active_tab = Len(w.tab_ids)],
     b |-> add_tab(b)]

Workspace_new == add_welcome_tab(Workspace_empty, TabBar_new)

\* returns [w, b]
on_tab_event(w, b, event) ==
    IF event.type = "NewTab" THEN add_welcome_tab(w, b)
    ELSE IF event.type = "Activate"
    THEN [w |-> IF event.index < Len(w.tab_ids) THEN [w EXCEPT !.active_tab = event.index] ELSE w,
          b |-> b]
    ELSE IF event.type = "Close"
    THEN IF Len(w.tab_ids) > 1 /\ event.index < Len(w.tab_ids)
         THEN LET tab_ids == RemoveAt(w.tab_ids, event.index)
              IN  [w |-> [w EXCEPT !.tab_ids = tab_ids,
                                   !.active_tab = IF w.active_tab >= Len(tab_ids)
                                                  THEN Len(tab_ids) - 1 ELSE w.active_tab],
                   b |-> b]
         ELSE [w |-> w, b |-> b]
    ELSE IF event.type = "Reorder"
    THEN LET from == event.index
             to == event.to
         IN  IF from >= Len(w.tab_ids) \/ to >= Len(w.tab_ids) \/ from = to
             THEN [w |-> w, b |-> b]
             ELSE [w |-> [w EXCEPT !.tab_ids = InsertAt(RemoveAt(w.tab_ids, from), to,
                                                        w.tab_ids[from + 1]),
                                   !.active_tab = move_index(w.active_tab, from, to)],
                   b |-> b]
    ELSE [w |-> w, b |-> b]

\* the events a handler of the bar emitted reach the Workspace
RECURSIVE Delivered(_, _, _)
Delivered(w, b, events) ==
    IF events = <<>> THEN [w |-> w, b |-> b]
    ELSE LET r == on_tab_event(w, b, Head(events))
         IN  Delivered(r.w, r.b, Tail(events))

InitTabs ==
    /\ AppIdle /\ TermIdle
    /\ recent_file = <<>> /\ recent = <<>> /\ opened = 0
    /\ stream = <<>> /\ whole = None /\ reader = NoReader
    /\ tab_bar = Some(Workspace_new.b)
    /\ workspace = Some(Workspace_new.w)

\* the handler of the bar runs, then the Workspace receives what it emitted
Handled(h) ==
    /\ \E r \in {Delivered(workspace[1], h.b, h.emitted)} :
          /\ tab_bar' = Some(r.b)
          /\ workspace' = Some(r.w)
    /\ UNCHANGED <<focus, boxVars, searchVars, tabVars, termVars,
                   recent_file, recent, opened, stream, whole, reader>>

\* a click on "+"
NewTab ==
    /\ Len(tab_bar[1].tabs) < MaxTabs
    /\ tab_bar[1].next_tab_id <= MaxMade
    /\ Handled(on_new_tab(tab_bar[1]))

\* a click on a tab
ActivateTab == \E index \in 0..(Len(tab_bar[1].tabs) - 1) : Handled(on_activate_tab(tab_bar[1], index))

\* a click on the cross of a tab
CloseTab == \E index \in 0..(Len(tab_bar[1].tabs) - 1) : Handled(on_close_tab(tab_bar[1], index))

\* a tab is dragged and dropped
ReorderTab ==
    \E from \in 0..(Len(tab_bar[1].tabs) - 1), to \in 0..(Len(tab_bar[1].tabs) - 1) :
       Handled(on_drag_end(tab_bar[1], from, to))

NextTabs == NewTab \/ ActivateTab \/ CloseTab \/ ReorderTab

SpecTabs == InitTabs /\ [][NextTabs]_vars

(***************************************************************************)
(* SpecReader: the thread that start_terminal_with_path spawns to read the *)
(* pty, the unbounded channel, and the task that hands what it receives to *)
(* append_output (lines 253-287).  stream holds the bytes the pty is still *)
(* to give.                                                                *)
(***************************************************************************)
\* the size of the buffer of the reader thread
ReadBuf == 2048

\* the two bytes of a character outside ASCII
Utf8Lead == "0xC3"

Utf8Tail == "0xA9"

\* String::from_utf8_lossy: a complete sequence is its character, a byte
\* that is cut off from its sequence is the replacement character
RECURSIVE from_utf8_lossy(_)
from_utf8_lossy(bytes) ==
    IF bytes = <<>> THEN <<>>
    ELSE IF Head(bytes) = Utf8Lead /\ Len(bytes) >= 2 /\ bytes[2] = Utf8Tail
    THEN <<"e'">> \o from_utf8_lossy(Drop(bytes, 2))
    ELSE IF Head(bytes) \in {Utf8Lead, Utf8Tail}
    THEN <<"?">> \o from_utf8_lossy(Tail(bytes))
    ELSE <<Head(bytes)>> \o from_utf8_lossy(Tail(bytes))

\* what the shell writes to the pty
ReaderStreams ==
    { <<"a", "\n", "b", "\n">>,
      <<"P", "S", " ", "a", ">">>,
      <<"a", Utf8Lead, Utf8Tail, "\n">> }

InitReader ==
    /\ TermIdle
    /\ focus = "tab"
    /\ SidebarIdle
    /\ path_env = DefaultPath
    /\ git_repo = None
    /\ history_log = <<>> /\ pty_out = <<>> /\ emitted = <<>> /\ pushed = <<>>
    /\ prompt_seen = FALSE
    /\ recent_file = <<>> /\ recent = <<>> /\ opened = 0
    /\ tab_bar = None /\ workspace = None
    /\ whole = None
    /\ tab = new(NoAppDir, DefaultPath, <<"~">>, None)
    /\ stream \in ReaderStreams
    /\ reader = [NoReader EXCEPT !.pc = "reading", !.consumer = "running"]

ReaderFrame ==
    UNCHANGED <<focus, boxVars, searchVars, termVars, history_log, path_env, git_repo,
                pty_out, pushed, prompt_seen,
                recent_file, recent, opened, tab_bar, workspace, whole>>

\* Ok(n): the thread sends the n bytes as a String; the send fails once the
\* receiving task has ended, and the thread ends
ReaderRead ==
    /\ reader.pc = "reading"
    /\ stream # <<>>
    /\ \E n \in 1..Min(Len(stream), ReadBuf) :
       \E data \in {from_utf8_lossy(Take(stream, n))} :
          /\ stream' = Drop(stream, n)
          /\ reader' = IF reader.consumer = "ended"
                       THEN [reader EXCEPT !.pc = "ended"]
                       ELSE [reader EXCEPT !.chan = Append(@, data),
                                           !.sent = Append(@, data)]
    /\ UNCHANGED <<tab, emitted>>
    /\ ReaderFrame

\* Ok(0): the shell has closed the pty
ReaderEof ==
    /\ reader.pc = "reading"
    /\ stream = <<>>
    /\ reader' = [reader EXCEPT !.pc = "ended"]
    /\ UNCHANGED <<tab, emitted, stream>>
    /\ ReaderFrame

\* Err(_): the read fails, with output still to come or not
ReaderError ==
    /\ reader.pc = "reading"
    /\ reader' = [reader EXCEPT !.pc = "ended"]
    /\ UNCHANGED <<tab, emitted, stream>>
    /\ ReaderFrame

\* ConsumerNext that takes the newest chunk of the channel
ConsumerNext_TakesNewest ==
    /\ reader.consumer = "running"
    /\ reader.chan # <<>>
    /\ IF reader.view
       THEN \E r \in {append_output(tab, reader.chan[Len(reader.chan)], git_repo)} :
               /\ tab' = r.t
               /\ emitted' = r.emitted
               /\ reader' = [reader EXCEPT !.chan = SubSeq(@, 1, Len(@) - 1),
                                           !.applied = Append(@, reader.chan[Len(reader.chan)])]
       ELSE /\ reader' = [reader EXCEPT !.chan = Tail(@), !.consumer = "ended"]
            /\ UNCHANGED <<tab, emitted>>
    /\ UNCHANGED stream
    /\ ReaderFrame

\* rx.next() yields a chunk: view.update(append_output); the update fails
\* and the loop breaks when the view has been released
ConsumerNext ==
    /\ reader.consumer = "running"
    /\ reader.chan # <<>>
    /\ IF reader.view
       THEN \E r \in {append_output(tab, Head(reader.chan), git_repo)} :
               /\ tab' = r.t
               /\ emitted' = r.emitted
               /\ reader' = [reader EXCEPT !.chan = Tail(@),
                                           !.applied = Append(@, Head(reader.chan))]
       ELSE /\ reader' = [reader EXCEPT !.chan = Tail(@), !.consumer = "ended"]
            /\ UNCHANGED <<tab, emitted>>
    /\ UNCHANGED stream
    /\ ReaderFrame

\* rx.next() yields None: the thread has ended, which dropped the sender,
\* and the channel is empty
ConsumerEnds ==
    /\ reader.consumer = "running"
    /\ reader.chan = <<>>
    /\ reader.pc = "ended"
    /\ reader' = [reader EXCEPT !.consumer = "ended"]
    /\ UNCHANGED <<tab, emitted, stream>>
    /\ ReaderFrame

\* the tab is closed and the view released
ViewReleased ==
    /\ reader.view
    /\ reader' = [reader EXCEPT !.view = FALSE]
    /\ UNCHANGED <<tab, emitted, stream>>
    /\ ReaderFrame

NextReader ==
    ReaderRead \/ ReaderEof \/ ReaderError \/ ConsumerNext \/ ConsumerEnds \/ ViewReleased

SpecReader == InitReader /\ [][NextReader]_vars

\* ConsumerNext can take a step
CanReceive == reader.consumer = "running" /\ reader.chan # <<>>

\* the executor polls the task whenever the channel has a message or has
\* been closed: weak fairness of ConsumerNext, with CanReceive written in
\* the place of ENABLED <<ConsumerNext>>_vars, and of ConsumerEnds
SpecReaderFair ==
    /\ InitReader
    /\ [][NextReader]_vars
    /\ ([]<>~CanReceive \/ []<><<ConsumerNext>>_vars)
    /\ WF_vars(ConsumerEnds)

(***************************************************************************)
(* SpecMenu: the history menu of the command input, with a log of more     *)
(* commands than the menu shows.                                           *)
(***************************************************************************)
MenuLog ==
    << <<"a">>, <<"b">>, <<"a", "a">>, <<"a", "b">>, <<"b", "a">>, <<"b", "b">>,
       <<"a", "a", "a">>, <<"a", "a", "b">>, <<"a", "b", "b">> >>

MenuKeys ==
    {Typed("a"), Key("backspace"), Key("up"), Key("down"), Key("enter"),
     Key("left"), Key("home"), Key("escape"), KeyEvent("a", None, TRUE, FALSE)}

InitMenu ==
    /\ TermIdle /\ ShellIdle
    /\ focus = "tab"
    /\ SidebarIdle
    /\ TabNew([NoHistory EXCEPT !.app_log = MenuLog], DefaultPath)

\* at most MaxRuns commands are run
MaxRuns == 1

MenuKey == \E ev \in MenuKeys : TabKey(ev) /\ Len(pushed') <= MaxRuns

\* the prompt of the shell arrives
MenuOutput == TabOutput(<<"P", "S", " ", "a", ">">>)

NextMenu == MenuKey \/ MenuOutput

SpecMenu == InitMenu /\ [][NextMenu]_vars

(***************************************************************************)
(* Claims on the search (checked under SpecSearch).                        *)
(***************************************************************************)
\* the step receives message m of channel g
Receives(g, m) ==
    /\ chan[g] # <<>>
    /\ Head(chan[g]) = m
    /\ chan' = [chan EXCEPT ![g] = Tail(@)]

\* the step sends a message on channel g
Sends(g) == Len(chan'[g]) > Len(chan[g])

\* C1: between two run_search calls the visible results change only by the
\* receipt of a Batch that carries the current search_generation (whose
\* results, or a prefix of them, are appended), and search_pending becomes
\* false only by the receipt of the Done of the current search_generation.
C1_OnlyCurrentGenerationTakesEffect ==
    [][search_generation' = search_generation =>
        /\ search_results' # search_results =>
              \E g \in Gens : \E n \in 1..BatchSize :
                  /\ chan[g] # <<>>
                  /\ Head(chan[g]).type = "Batch"
                  /\ Head(chan[g]).gen = search_generation
                  /\ Receives(g, Head(chan[g]))
                  /\ search_results' = search_results \o Take(Head(chan[g]).results, n)
        /\ (search_pending /\ ~search_pending') =>
              \E g \in Gens : Receives(g, Done(search_generation))
    ]_vars

\* C1 witness: the Batch and the Done that worker 1 sent after it was
\* superseded have been received, and scan 2 has delivered its results and
\* its Done.
C1_Witness ==
    /\ search_generation = 2
    /\ worker[1].sent_after = 2
    /\ consumer[1] = "ended"
    /\ consumer[2] = "ended"
    /\ search_results # <<>>
    /\ \A i \in 1..Len(search_results) : search_results[i].gen = 2
    /\ ~search_pending

C3_ResultsWithinLimit == Len(search_results) <= rules.search_limit

\* C3 witness: with search_limit = 0 the current scan found a result and its
\* Batch and Done have been received; with a positive limit the results have
\* reached it.
C3_Witness ==
    /\ search_generation \in Gens
    /\ worker[search_generation].total > 0
    /\ consumer[search_generation] = "ended"
    /\ Len(search_results) = rules.search_limit

(***************************************************************************)
(* Claims on the text inputs (checked under SpecEdit).                     *)
(***************************************************************************)
\* C4: after every key event that inserts text or deletes backwards, in the
\* search box edited through TextEditState and in the command input of
\* TabView, the cursor is between 0 and the number of scalars of the text.
C4_CursorWithinText ==
    /\ 0 <= search_cursor /\ search_cursor <= Len(search_query)
    /\ 0 <= tab.cursor /\ tab.cursor <= Len(tab.input)

\* C4 witness: the command input holds a full-length text, typed and
\* deleted into, with the cursor inside it.
C4_Witness ==
    /\ focus = "tab"
    /\ Len(tab.input) = MaxLen
    /\ tab.cursor \in 1..(MaxLen - 1)
    /\ tab.input[1] = "/"

\* C5 as claimed: a stored selection of the command input has both ends
\* between 0 and the number of scalars of the input.
C5_SelectionWithinText ==
    tab.selection # None =>
        /\ tab.selection[1][1] \in 0..Len(tab.input)
        /\ tab.selection[1][2] \in 0..Len(tab.input)

(***************************************************************************)
(* Claims on the history (checked under SpecHistory and SpecStartup).      *)
(***************************************************************************)
\* s with every run of adjacent equal elements collapsed to one
RECURSIVE CollapseRuns(_)
CollapseRuns(s) ==
    IF Len(s) <= 1 THEN s
    ELSE IF s[1] = s[2] THEN CollapseRuns(Tail(s))
    ELSE <<s[1]>> \o CollapseRuns(Tail(s))

C7_HistoryWithinCapacity == Len(tab.history) <= HistoryCap

\* the non-blank lines of s that do not occur again later in s
LastOccurrences(s) ==
    LET NonBlank(l) == Trim(l) # <<>>
        nb == SelectSeq(s, NonBlank)
        IsLast(i) == \A j \in (i + 1)..Len(nb) : nb[j] # nb[i]
        idx == SelectSeq([i \in 1..Len(nb) |-> i], IsLast)
    IN [k \in 1..Len(idx) |-> nb[idx[k]]]

\* C8 as claimed: right after startup the history holds no string twice, and
\* the commands of the application log appear in it newest first: a later
\* line of the log is nearer the front than an earlier one.
C8_StartupNewestFirst ==
    pushed = <<>> =>
        LET InLog(cmd) == cmd \in Range(history_log) IN
        /\ \A i, j \in 1..Len(tab.history) : i # j => tab.history[i] # tab.history[j]
        /\ SelectSeq(tab.history, InLog) = Reverse(LastOccurrences(history_log))

(***************************************************************************)
(* Claims on the suggestions (checked under SpecSuggest).                  *)
(***************************************************************************)
\* the view after refresh_suggestions, for either answer of the PATH timer
RefreshedViews ==
    { refresh_suggestions(tab, [elapsed |-> elapsed, path_var |-> path_env.path_var,
                                path_bins |-> path_env.path_bins]) : elapsed \in BOOLEAN }

\* x was run after y, going by the application log
MoreRecent(x, y) ==
    \E i, j \in 1..Len(history_log) :
        /\ history_log[i] = x /\ history_log[j] = y /\ i > j
        /\ \A k \in (j + 1)..Len(history_log) : history_log[k] # y

\* C9 as claimed: when some history entry has the (non-empty) text before
\* the cursor as a proper prefix, the first suggestion after
\* refresh_suggestions is a history entry with that prefix and no other such
\* entry is more recent; no history suggestion equals the text before the
\* cursor.
C9_FirstSuggestionIsMostRecentMatch ==
    \A t \in RefreshedViews :
        LET prefix == prefix_at_cursor(tab)
            matches == {cmd \in Range(tab.history) : StartsWith(cmd, prefix) /\ cmd # prefix}
        IN /\ \A i \in 1..Len(t.suggestions) :
                 t.suggestions[i].source = "History" => t.suggestions[i].insert # prefix
           /\ (prefix # <<>> /\ matches # {}) =>
                 /\ t.suggestions # <<>>
                 /\ t.suggestions[1].source = "History"
                 /\ t.suggestions[1].insert \in matches
                 /\ \A cmd \in matches : ~MoreRecent(cmd, t.suggestions[1].insert)

SourceRank(source) == CASE source = "History" -> 1 [] source = "Path" -> 2 [] source = "Command" -> 3

\* C10: after refresh_suggestions the History items come before the Path
\* items and these before the Command items, the Path items and the Command
\* items are sorted by display, no two items have the same insert text, and
\* a candidate that is also a history match is kept as the History item.
C10_SuggestionsOrderedAndDistinct ==
    \A t \in RefreshedViews :
        LET s == t.suggestions
            prefix == prefix_at_cursor(tab)
        IN /\ \A i, j \in 1..Len(s) : i < j =>
                 /\ SourceRank(s[i].source) <= SourceRank(s[j].source)
                 /\ s[i].insert # s[j].insert
                 /\ (s[i].source = s[j].source /\ s[i].source \in {"Path", "Command"})
                       => ~StrLess(s[j].display, s[i].display)
           /\ prefix # <<>> =>
                 \A k \in 1..Len(tab.history) :
                     (StartsWith(tab.history[k], prefix) /\ tab.history[k] # prefix) =>
                         \E i \in 1..Len(s) : /\ s[i].insert = tab.history[k]
                                              /\ s[i].source = "History"

\* C10 witness: the suggestions are those of a refresh; they hold a History
\* item and a Command item, and an executable that is also in the history
\* was dropped as a Command item.
C10_Witness ==
    /\ tab \in RefreshedViews
    /\ \E i, j \in 1..Len(tab.suggestions) :
          /\ tab.suggestions[i].source = "History"
          /\ tab.suggestions[j].source = "Command"
    /\ \E k \in 1..Len(tab.path_commands) :
          /\ StartsWith(tab.path_commands[k], prefix_at_cursor(tab))
          /\ tab.path_commands[k] # prefix_at_cursor(tab)
          /\ tab.path_commands[k] \in Range(tab.history)

\* the environments a key handler of the tab can run in at this state
KeyEnvs ==
    { [elapsed |-> elapsed, path_var |-> path_env.path_var, path_bins |-> path_env.path_bins] :
        elapsed \in BOOLEAN }

\* the candidate inline_ghost_insert completes towards
ActiveCandidate(t) == t.suggestions[Min(t.suggest_index, Len(t.suggestions) - 1) + 1].insert

\* C11: whenever inline_ghost_insert offers a ghost text g there is no
\* non-empty selection and left + g + right is the insert text of the active
\* candidate; accept_suggestion then makes the input that insert text, puts
\* the cursor right after g and leaves the suggestions as refresh_suggestions
\* computes them for the new input.
C11_GhostTextCompletesCandidate ==
    \A g \in {inline_ghost_insert(tab)} :
        g # None =>
            /\ ~has_selection(tab)
            /\ split_at_cursor(tab)[1] \o g[1] \o split_at_cursor(tab)[2] = ActiveCandidate(tab)
            /\ \A e \in KeyEnvs : \A r \in {accept_suggestion(tab, e)} :
                  /\ r.input = ActiveCandidate(tab)
                  /\ r.cursor = Len(split_at_cursor(tab)[1]) + Len(g[1])
                  /\ r.suggestions = refresh_suggestions(r, e).suggestions

\* C11 witness: a ghost text is offered in the middle of the line, with text
\* before and after the cursor.
C11_Witness ==
    /\ inline_ghost_insert(tab) # None
    /\ split_at_cursor(tab)[2] # <<>>
    /\ split_at_cursor(tab)[1] # <<>>

(***************************************************************************)
(* Claims on strip_ansi (checked under SpecStrip).                         *)
(***************************************************************************)
\* a run of characters with no ESC
IsPlainText(u) == \A i \in 1..Len(u) : u[i] # "ESC"

\* ESC [ ... up to and including the first character in @ to ~
IsCsiSequence(u) ==
    /\ Len(u) >= 3
    /\ u[1] = "ESC" /\ u[2] = "["
    /\ CodePoint(u[Len(u)]) \in 64..126
    /\ \A i \in 3..(Len(u) - 1) : CodePoint(u[i]) \notin 64..126

\* position i of u ends an OSC terminator: BEL, or the backslash of ESC
\* backslash
EndsOscAt(u, i) ==
    \/ u[i] = "BEL"
    \/ i >= 4 /\ u[i] = "\\" /\ u[i - 1] = "ESC"

\* ESC ] ... up to and including the first BEL or ESC backslash
IsOscSequence(u) ==
    /\ Len(u) >= 3
    /\ u[1] = "ESC" /\ u[2] = "]"
    /\ EndsOscAt(u, Len(u))
    /\ \A i \in 3..(Len(u) - 1) : ~EndsOscAt(u, i)

\* the pieces <<first, last>> into which the cuts split 1..n
Pieces(n, cuts) ==
    {p \in (1..n) \X (1..n) :
        /\ p[1] <= p[2]
        /\ p[1] - 1 \in cuts \cup {0}
        /\ p[2] \in cuts \cup {n}
        /\ \A c \in cuts : ~(p[1] <= c /\ c < p[2])}

\* the ways to read s as plain text, CSI sequences and OSC sequences
Readings(s) ==
    {cuts \in SUBSET (1..(Len(s) - 1)) :
        \A p \in Pieces(Len(s), cuts) :
            \/ IsPlainText(SubSeq(s, p[1], p[2]))
            \/ IsCsiSequence(SubSeq(s, p[1], p[2]))
            \/ IsOscSequence(SubSeq(s, p[1], p[2]))}

\* the characters of s at the positions in keep, in order
Restrict(s, keep) ==
    LET Kept(i) == i \in keep
        idx == SelectSeq([i \in 1..Len(s) |-> i], Kept)
    IN [j \in 1..Len(idx) |-> s[idx[j]]]

\* the positions of s that the reading takes as plain text
PlainPositions(s, cuts) ==
    {i \in 1..Len(s) :
        \E p \in Pieces(Len(s), cuts) :
            p[1] <= i /\ i <= p[2] /\ IsPlainText(SubSeq(s, p[1], p[2]))}

\* C12: for an input made of plain text, CSI sequences and OSC sequences,
\* strip_ansi returns the plain text: every CSI sequence and every OSC
\* sequence is removed and every other character is kept, in order.
C12_StripRemovesCsiAndOsc ==
    ansi_output # None =>
        \A cuts \in Readings(ansi_input) :
            ansi_output[1] = Restrict(ansi_input, PlainPositions(ansi_input, cuts))

\* C12 witness: strip_ansi has returned for text, a CSI sequence with a
\* parameter, and text again.
C12_Witness ==
    /\ ansi_input = <<"1", "ESC", "[", "1", "a">>
    /\ ansi_output = Some(<<"1">>)

\* C13 as claimed: for plain text, an ESC followed by a character other
\* than [ or ], and plain text again, strip_ansi returns the two texts:
\* neither the ESC nor the character after it is in the output.
C13_EscAndNextDiscarded ==
    ansi_output # None =>
        \A i \in 1..(Len(ansi_input) - 1) :
            (/\ ansi_input[i] = "ESC"
             /\ ansi_input[i + 1] \notin {"[", "]"}
             /\ IsPlainText(SubSeq(ansi_input, 1, i - 1))
             /\ IsPlainText(SubSeq(ansi_input, i + 2, Len(ansi_input))))
            => ansi_output[1] = SubSeq(ansi_input, 1, i - 1)
                                   \o SubSeq(ansi_input, i + 2, Len(ansi_input))

(***************************************************************************)
(* Claims on the terminal parser (checked under SpecParser).               *)
(***************************************************************************)
\* the lines the performer has printed, in order
Printed ==
    LET HasLine(c) == c.printed # None
        lines == SelectSeq(performed, HasLine)
    IN [i \in 1..Len(lines) |-> lines[i].printed[1]]

\* the bytes the performer was given as printable text
PrintedText ==
    LET IsPrint(c) == c.call = "print"
        prints == SelectSeq(performed, IsPrint)
    IN [i \in 1..Len(prints) |-> prints[i].arg]

\* the bytes of the OSC sequence of payload 133;letter have all been
\* processed
Processed(letter) ==
    /\ parser_data = <<>>
    /\ performed # <<>>
    /\ \E i \in 1..Len(performed) :
          /\ performed[i].call = "osc_dispatch"
          /\ performed[i].arg = SplitParams(SemanticMarker(letter))

\* C14 as claimed: once an OSC sequence of payload 133;A, 133;B, 133;C or
\* 133;D has been processed, the performer has classified it as prompt
\* start, command start, output start or command finished, and none of its
\* bytes was given to the performer as printable text.
C14_SemanticMarkersClassified ==
    /\ Processed("A") => Printed = <<"Prompt started">>
    /\ Processed("B") => Printed = <<"Command started">>
    /\ Processed("C") => Printed = <<"Command output started">>
    /\ Processed("D") => Printed = <<"Command finished">>
    /\ \A i \in 1..Len(PrintedText) : PrintedText[i] = "a"

(***************************************************************************)
(* Claims on the scrollback buffer (checked under SpecBuffer).             *)
(***************************************************************************)
\* C15 as claimed: whatever max_scrollback is, every call returns, the
\* buffer holds at most max_scrollback lines, and they are the lines fed
\* last, in the order they were fed.
C15_ScrollbackKeepsNewest ==
    /\ ~buffer.panicked
    /\ Len(buffer.lines) <= buffer.max_scrollback
    /\ Len(buffer.lines) <= Len(fed)
    /\ buffer.lines = SubSeq(fed, Len(fed) - Len(buffer.lines) + 1, Len(fed))

(***************************************************************************)
(* Claims on the command blocks (checked under SpecOutput).                *)
(***************************************************************************)
\* C16 as claimed: once a prompt line has been recognized for the block of
\* the command submitted last, no step other than the submission of a new
\* command changes the blocks: no output line is appended to that block and
\* no other block receives output.
C16_PromptClosesBlock ==
    [][(pushed # <<>> /\ prompt_seen /\ pushed' = pushed) => tab'.blocks = tab.blocks]_vars

(***************************************************************************)
(* Claims on the two line editors (checked under SpecEdit).                *)
(***************************************************************************)
\* n calls of TextEditState::pop_char_before_cursor
RECURSIVE TextEditState_PopTimes(_, _)
TextEditState_PopTimes(ed, n) ==
    IF n = 0 THEN ed
    ELSE TextEditState_PopTimes(TextEditState_pop_char_before_cursor(ed), n - 1)

\* n calls of TabView::pop_char_before_cursor
RECURSIVE PopTimes(_, _)
PopTimes(t, n) == IF n = 0 THEN t ELSE PopTimes(pop_char_before_cursor(t), n - 1)

\* the texts inserted
InsertTexts == UNION {[1..n -> {"a", "/", " "}] : n \in 0..2}

\* C17: in the search box and in the command input, when there is no
\* non-empty selection, insert_text(s) followed by len(s) calls of
\* pop_char_before_cursor gives back the text and the cursor.
C17_InsertThenPopRestores ==
    /\ ~TextEditState_has_selection(SearchBox.selection) =>
          \A s \in InsertTexts :
              \A ed \in {TextEditState_PopTimes(TextEditState_insert_text(SearchBox, s), Len(s))} :
                  ed.text = SearchBox.text /\ ed.cursor = SearchBox.cursor
    /\ ~has_selection(tab) =>
          \A s \in InsertTexts :
              \A t \in {PopTimes(insert_text(tab, s), Len(s))} :
                  t.input = tab.input /\ t.cursor = tab.cursor

\* C17 witness: the command input holds text on both sides of the cursor
\* and an empty selection is stored.
C17_Witness ==
    /\ 0 < tab.cursor /\ tab.cursor < Len(tab.input)
    /\ tab.selection # None
    /\ ~has_selection(tab)
    /\ insert_text(tab, <<"a", " ">>).input # tab.input

\* C18: on a non-empty text, select_all (search box) and select_all_input
\* (command input) set the selection to (0, len) and the cursor to len and
\* leave the text as it is; a second call changes nothing at all.
C18_SelectAllIdempotent ==
    /\ SearchBox.text # <<>> =>
          \A ed \in {TextEditState_select_all(SearchBox)} :
              /\ ed.selection = Some(<<0, Len(SearchBox.text)>>)
              /\ ed.cursor = Len(SearchBox.text)
              /\ ed.text = SearchBox.text
              /\ TextEditState_select_all(ed) = ed
    /\ tab.input # <<>> =>
          \A t \in {select_all_input(tab)} :
              /\ t.selection = Some(<<0, Len(tab.input)>>)
              /\ t.cursor = Len(tab.input)
              /\ t.input = tab.input
              /\ select_all_input(t) = t

\* C18 witness: the whole command input, of two characters or more, is
\* selected the way select_all_input leaves it.
C18_Witness ==
    /\ Len(tab.input) >= 2
    /\ tab.selection = Some(<<0, Len(tab.input)>>)
    /\ tab.selection_anchor = Some(0)
    /\ tab.cursor = Len(tab.input)
    /\ select_all_input(tab) = tab

(***************************************************************************)
(* Further claims on the search (checked under SpecSearch).                *)
(***************************************************************************)
\* the message the step sends on channel g
Sent(g) == chan'[g][Len(chan'[g])]

\* C19: a worker that has not been cancelled buffers its results in the
\* order it finds them; while it walks it sends a Batch only when the
\* buffer holds BatchSize results, after the walk it sends what is left (1
\* to BatchSize results) and then Done, and after Done it sends nothing.
C19_BatchesThenDone ==
    [][\A g \in Gens : (~worker'[g].cancelled /\ worker[g].pc # "none"
                          /\ (worker'[g] # worker[g] \/ Sends(g))) =>
        /\ worker[g].pc # "exited"
        /\ worker'[g].total = worker[g].total + 1 =>
              \/ ~Sends(g) /\ Len(worker'[g].batch) = Len(worker[g].batch) + 1
                           /\ SubSeq(worker'[g].batch, 1, Len(worker[g].batch)) = worker[g].batch
              \/ Sends(g) /\ Sent(g).type = "Batch" /\ Len(Sent(g).results) = BatchSize
                          /\ SubSeq(Sent(g).results, 1, BatchSize - 1) = worker[g].batch
                          /\ worker'[g].batch = <<>>
        /\ (worker'[g].total = worker[g].total /\ Sends(g)) =>
              \/ /\ worker[g].pc = "flush" /\ worker'[g].pc = "done"
                 /\ Sent(g) = Batch(g, worker[g].batch)
                 /\ Len(worker[g].batch) \in 1..BatchSize
              \/ /\ worker[g].pc = "done" /\ worker'[g].pc = "exited"
                 /\ worker[g].batch = <<>>
                 /\ Sent(g) = Done(g)
        /\ (worker[g].pc = "flush" /\ worker[g].batch # <<>>) => Sends(g)
        /\ worker[g].pc = "done" => Sends(g)
    ]_vars

\* C19 witness: a worker that was never cancelled has found more than
\* BatchSize results, sent them and its Done, and ended.
C19_Witness ==
    \E g \in Gens :
        /\ ~worker[g].cancelled
        /\ worker[g].pc = "exited"
        /\ worker[g].total > BatchSize
        /\ worker[g].batch = <<>>

(***************************************************************************)
(* Claims on the creation of a session (checked under SpecSession).        *)
(***************************************************************************)
\* C20 as claimed: when a call needed for the pseudo-terminal or the child
\* process fails, the caller gets an error value, no call is made twice and
\* no pty is kept; so it is for new_in_path and for a session started from
\* a tab.
C20_CreationFailureIsReturned ==
    (session # None /\ session[1].fails # "none") =>
        /\ session[1].result = "err"
        /\ \A i, j \in 1..Len(session[1].calls) :
              session[1].calls[i] = session[1].calls[j] => i = j
        /\ session[1].caller = "tab" => ~tab.pty

(***************************************************************************)
(* Claims on the recent repositories (checked under SpecRecent).           *)
(***************************************************************************)
\* C21: after any sequence of add_recent calls the recent list has at most
\* 20 entries, no two entries have the same path, and the entries are in
\* the order of their last_opened, the most recent first.
C21_RecentListBounded ==
    /\ Len(recent) <= 20
    /\ \A i, j \in 1..Len(recent) : i # j => recent[i].path # recent[j].path
    /\ \A i, j \in 1..Len(recent) :
          i < j => recent[i].last_opened >= recent[j].last_opened

\* a twenty-first path has been opened and an entry has been dropped
C21_Witness ==
    /\ Len(recent) = 20
    /\ \E i \in 1..Len(recent) : recent[i].path = 21
    /\ \E i, j \in 1..Len(recent) : recent[i].last_opened # recent[j].last_opened

(***************************************************************************)
(* Claims on the generations of the search (checked under SpecSearch).     *)
(***************************************************************************)
\* the step is a run_search that spawns the worker of generation g
Spawns(g) == worker[g].pc = "none" /\ worker'[g].pc # "none"

\* C22: every run_search, also one with an empty query, raises
\* search_generation by exactly one and stores that value in the atomic
\* search_cancel; so in every state the atomic equals search_generation,
\* and a scan has a greater generation than every scan started before it.
C22_GenerationRaisedAndAccepted ==
    /\ [](search_cancel = search_generation)
    /\ [][(\/ search_generation' # search_generation
           \/ search_cancel' # search_cancel
           \/ \E g \in Gens : Spawns(g))
          => /\ search_generation' = search_generation + 1
             /\ search_cancel' = search_generation'
             /\ \A g \in Gens :
                   Spawns(g) =>
                      /\ g = search_generation'
                      /\ \A e \in Gens : worker[e].pc # "none" => e < g]_vars

\* the first run_search had an empty query, the second one runs a scan
C22_Witness ==
    /\ search_generation = 2
    /\ search_cancel = 2
    /\ worker[1].pc = "none"
    /\ worker[2].pc # "none"

LastCommand(t) == t.blocks[Len(t.blocks)].command

LastOutput(t) == t.blocks[Len(t.blocks)].output_lines

IsContinuationLine(line) == Trim(line) = <<">", ">">>

\* the positions of the lines whose trimmed text is c
EqualTo(lines, c) == {i \in 1..Len(lines) : Trim(lines[i]) = c}

\* the position swallowed as the echo of c: the first line equal to c, if
\* the echo of c is still waited for
EchoAt(t, lines, c) ==
    IF t.pending_echo = Some(c) /\ EqualTo(lines, c) # {}
    THEN {CHOOSE i \in EqualTo(lines, c) : \A j \in EqualTo(lines, c) : i <= j}
    ELSE {}

\* output_lines after the lines of a chunk of which those at the
\* positions in drop are discarded: the first line continues the last line
\* of the block, the others are new lines
Appended(output_lines, lines, drop) ==
    LET first == IF 1 \in drop THEN output_lines
                 ELSE IF output_lines = <<>> THEN <<lines[1]>>
                 ELSE [output_lines EXCEPT ![Len(output_lines)] = @ \o lines[1]]
        kept == SelectSeq([i \in 1..Len(lines) |-> i], LAMBDA i : i > 1 /\ i \notin drop)
    IN  first \o [k \in 1..Len(kept) |-> lines[kept[k]]]

\* C24 (as stated): after run_command(c) the first output line whose
\* trimmed text is c is discarded and ends the echo wait, and every other
\* line equal to c is appended to the block.
C24_OnlyFirstEchoSwallowed ==
    (pushed # <<>> /\ tab.blocks # <<>>) =>
        \A chunk \in BlockChunks :
           \A r \in {append_output(tab, chunk, git_repo).t} :
              LET lines == OutputLines(chunk)
                  c == LastCommand(tab)
                  echo == EchoAt(tab, lines, c)
                  other == {i \in 1..Len(lines) :
                               /\ Trim(lines[i]) # c
                               /\ IsContinuationLine(lines[i]) \/ is_prompt_line(lines[i])}
              IN /\ LastOutput(r) = Appended(LastOutput(tab), lines, echo \cup other)
                 /\ r.pending_echo = IF echo # {} THEN None ELSE tab.pending_echo

\* C24 (amended): after run_command(c) the first output line whose trimmed
\* text is c is discarded and ends the echo wait; every other line equal
\* to c is appended to the block unless it is a continuation line ">>" or
\* a prompt line, which are never appended; so at most one line for each
\* command is swallowed as its echo.
C24_OnlyFirstEchoSwallowedUnlessPrompt ==
    (pushed # <<>> /\ tab.blocks # <<>>) =>
        \A chunk \in BlockChunks :
           \A r \in {append_output(tab, chunk, git_repo).t} :
              LET lines == OutputLines(chunk)
                  c == LastCommand(tab)
                  echo == EchoAt(tab, lines, c)
                  other == {i \in 1..Len(lines) :
                               /\ i \notin echo
                               /\ IsContinuationLine(lines[i]) \/ is_prompt_line(lines[i])}
              IN /\ LastOutput(r) = Appended(LastOutput(tab), lines, echo \cup other)
                 /\ r.pending_echo = IF echo # {} THEN None ELSE tab.pending_echo

\* the echo of the command "a" has been swallowed and a later line "a" is
\* in the block
C24_Witness ==
    /\ tab.blocks # <<>>
    /\ LastCommand(tab) = <<"a">>
    /\ tab.pending_echo = None
    /\ LastOutput(tab) = << <<"a">> >>


\* the keys pressed while the input is hidden
HiddenKeys ==
    BlockKeys \cup {Key("left"), Key("up"), Key("tab"), Key("space"),
                    KeyEvent("a", None, TRUE, FALSE), KeyEvent("g", None, TRUE, FALSE)}

IsEscapeOrCtrlLetter(ev) == ev.key = "escape" \/ (ev.ctrl /\ ev.key \in SingleCharKeys)

\* while the input is hidden no key changes the input text or runs a
\* command, and only Escape and Ctrl+letter write to the pty
HiddenInputIsInert ==
    ~tab.input_visible =>
        \A ev \in HiddenKeys :
           \A r \in {on_key_down(tab, ev, [elapsed |-> FALSE, path_var |-> path_env.path_var,
                                           path_bins |-> path_env.path_bins])} :
              /\ r.t.input = tab.input
              /\ r.pushed = <<>>
              /\ ~r.t.input_visible
              /\ r.written # <<>> => IsEscapeOrCtrlLetter(ev)

\* the lines of a chunk that are prompt lines or continuation lines
PromptsIn(lines) == {i \in 1..Len(lines) : is_prompt_line(lines[i])}

ContinuationsIn(lines) == {i \in 1..Len(lines) : IsContinuationLine(lines[i])}

OutputOf(t) == IF t.blocks = <<>> THEN <<>> ELSE LastOutput(t)

\* a step that runs a command hides the input, and a step that shows it
\* again is the arrival of a chunk with a prompt line or a continuation line
HiddenUntilPrompt ==
    /\ pushed' # pushed => ~tab'.input_visible
    /\ (~tab.input_visible /\ tab'.input_visible) =>
          \E chunk \in BlockChunks :
             /\ tab' = append_output(tab, chunk, git_repo).t
             /\ PromptsIn(OutputLines(chunk)) \cup ContinuationsIn(OutputLines(chunk)) # {}

\* what a chunk whose lines at the positions in prompts are processed as
\* prompt lines does
PromptShowsInput(prompts(_, _)) ==
    \A chunk \in BlockChunks :
       \A r \in {append_output(tab, chunk, git_repo).t} :
          LET lines == OutputLines(chunk)
              echo == IF tab.blocks = <<>> THEN {} ELSE EchoAt(tab, lines, LastCommand(tab))
              P == prompts(lines, echo)
          IN P # {} =>
               /\ r.input_visible
               /\ r.git_status = git_repo
               /\ ~r.needs_git_refresh
               /\ OutputOf(r) = Appended(OutputOf(tab), lines, echo \cup P \cup ContinuationsIn(lines))

\* C25 (as stated): from run_command until a prompt line or a continuation
\* line is processed the input is hidden and no key edits the input or runs
\* a command (only Escape and Ctrl+letter reach the pty); every prompt line
\* shows the input, refreshes the git status, clears needs_git_refresh and
\* is not appended to a block.
C25_HiddenUntilPrompt ==
    /\ [](HiddenInputIsInert /\ PromptShowsInput(LAMBDA lines, echo : PromptsIn(lines)))
    /\ [][HiddenUntilPrompt]_vars

\* C25 (amended): the same, for every prompt line that is not swallowed as
\* the echo of the command.
C25_HiddenUntilPromptAfterEcho ==
    /\ [](HiddenInputIsInert /\ PromptShowsInput(LAMBDA lines, echo : PromptsIn(lines) \ echo))
    /\ [][HiddenUntilPrompt]_vars

\* the command "a" ran while the repository was in another state, the input
\* was hidden, and the prompt line that followed has shown it again with the
\* git status of the repository as it is now
C25_Witness ==
    /\ pushed = << <<"a">> >>
    /\ tab.input_visible
    /\ tab.blocks # <<>>
    /\ tab.blocks[Len(tab.blocks)].context[1].git_branch # 
          (IF tab.git_status = None THEN None ELSE Some(tab.git_status[1].branch))
    /\ tab.git_status = git_repo
    /\ tab.current_path = <<"a">>
    /\ LastOutput(tab) = <<>>


(***************************************************************************)
(* Claims on the cutting of the output (checked under SpecChunks).         *)
(***************************************************************************)
\* C26: once the whole output has been delivered, the output_lines of the
\* current block are those that delivering it as one chunk gives, however
\* it was cut into chunks.
C26_ChunkingIndependent ==
    stream = <<>> => OutputOf(tab) = OutputOf(whole[1])


\* a step leaves every block that is not the last one as it is, and leaves
\* the context of every block as it is
EarlierBlocksKept ==
    /\ Len(tab'.blocks) >= Len(tab.blocks)
    /\ \A i \in 1..Len(tab.blocks) :
          /\ tab'.blocks[i].context = tab.blocks[i].context
          /\ i < Len(tab.blocks) => tab'.blocks[i] = tab.blocks[i]

\* C27: appending output changes only the last block: command,
\* output_lines and has_error of every earlier block stay as they are, and
\* so does the context of every block, the last one included, whatever the
\* prompt path and the git status become later.
C27_OnlyLastBlockChanges == [][EarlierBlocksKept]_vars

BranchOf(git_status) == IF git_status = None THEN None ELSE Some(git_status[1].branch)

\* two commands have run and both have output; the first ran in "~" and
\* the second in "a", and the git status has changed since the second ran
C27_Witness ==
    /\ Len(tab.blocks) = 2
    /\ tab.blocks[1].context # None /\ tab.blocks[1].context[1].cwd = <<"~">>
    /\ tab.blocks[2].context # None /\ tab.blocks[2].context[1].cwd = <<"a">>
    /\ tab.blocks[1].output_lines # <<>>
    /\ tab.blocks[2].output_lines # <<>>
    /\ tab.blocks[2].context[1].git_branch # BranchOf(tab.git_status)
    /\ tab.blocks[1].context[1].git_branch # tab.blocks[2].context[1].git_branch


(***************************************************************************)
(* Claims on the refresh of the git status (checked under SpecGit).        *)
(***************************************************************************)
\* the command starts, whatever the case of its letters, with "git
\* checkout" or "git switch"
ChangesBranch(command) ==
    LET lower == to_ascii_lowercase(command) IN
    \/ StartsWith(lower, <<"g", "i", "t", " ", "c", "h", "e", "c", "k", "o", "u", "t">>)
    \/ StartsWith(lower, <<"g", "i", "t", " ", "s", "w", "i", "t", "c", "h">>)

\* the lines of a chunk that hold a phrase confirming a change of branch
ConfirmationsIn(lines) == {i \in 1..Len(lines) : is_git_branch_change_line(lines[i])}

\* a refresh is pending exactly from a command that changes the branch on
\* (only run_command raises needs_git_refresh)
PendingFromCommand ==
    /\ pushed' # pushed => tab'.needs_git_refresh = ChangesBranch(pushed'[Len(pushed')])
    /\ (~tab.needs_git_refresh /\ tab'.needs_git_refresh) => pushed' # pushed

\* what the next chunk does: while a refresh is pending a line with a
\* confirmation refreshes the git status and ends the wait, and lines
\* without one (and without a prompt) leave both as they are; when none is
\* pending, a chunk without a prompt leaves the git status as it is
ConfirmationRefreshesOnce ==
    \A chunk \in GitChunks :
       \A r \in {append_output(tab, chunk, git_repo).t} :
          LET lines == OutputLines(chunk) IN
          /\ (tab.needs_git_refresh /\ ConfirmationsIn(lines) # {}) =>
                r.git_status = git_repo /\ ~r.needs_git_refresh
          /\ (tab.needs_git_refresh /\ ConfirmationsIn(lines) = {} /\ PromptsIn(lines) = {}) =>
                r.git_status = tab.git_status /\ r.needs_git_refresh
          /\ (~tab.needs_git_refresh /\ PromptsIn(lines) = {}) =>
                r.git_status = tab.git_status /\ ~r.needs_git_refresh

\* C28: after run_command with a command that starts, in any case, with
\* "git checkout" or "git switch", the first later line with a confirmation
\* of a branch change refreshes the git status, without waiting for a
\* prompt, and clears needs_git_refresh, so there is at most one such
\* refresh for a command; after any other command a confirmation refreshes
\* nothing.
C28_BranchChangeRefresh ==
    /\ []ConfirmationRefreshesOnce
    /\ [][PendingFromCommand]_vars

\* "GIT Switch b" ran, the repository changed, and the line "Already on"
\* has refreshed the git status while the input is still hidden
C28_Witness ==
    /\ pushed = <<GitSwitchB>>
    /\ ~tab.input_visible
    /\ ~tab.needs_git_refresh
    /\ LastOutput(tab) = <<AlreadyOn>>
    /\ tab.git_status = git_repo
    /\ tab.blocks[Len(tab.blocks)].context[1].git_branch # BranchOf(tab.git_status)


(***************************************************************************)
(* Claims on the tab strip (checked under SpecTabs).                       *)
(***************************************************************************)
\* C29: after any sequence of NewTab, Activate, Close and Reorder events
\* the TabBar and the Workspace hold the same tabs in the same order and
\* the same active index.
C29_BarMatchesWorkspace ==
    /\ tab_bar[1].tabs = workspace[1].tab_ids
    /\ tab_bar[1].active_tab = workspace[1].active_tab

\* C30: in the TabBar, closing a tab other than the active one when there
\* are several leaves the same tab active, its index one less when the
\* closed tab was before it and the same otherwise; with one tab closing is
\* refused; and active_tab is below the number of tabs.
C30_CloseKeepsActiveTab ==
    LET b == tab_bar[1] IN
    /\ b.active_tab < Len(b.tabs)
    /\ \A index \in 0..(Len(b.tabs) - 1) :
          \A c \in {close_tab(b, index)} :
             IF Len(b.tabs) = 1 THEN c = b
             ELSE /\ Len(c.tabs) = Len(b.tabs) - 1
                  /\ index # b.active_tab =>
                        /\ c.active_tab = IF index < b.active_tab THEN b.active_tab - 1
                                          ELSE b.active_tab
                        /\ c.active_tab < Len(c.tabs)
                        /\ c.tabs[c.active_tab + 1] = b.tabs[b.active_tab + 1]


(***************************************************************************)
(* Claims on the word jumps (checked under SpecEdit).                      *)
(***************************************************************************)
EditEnv == [elapsed |-> FALSE, path_var |-> path_env.path_var, path_bins |-> path_env.path_bins]

\* C31: move_word_left(from) is in [0, from] and move_word_right(from) in
\* [from, len]; from every from > 0 the jump of Ctrl+Left ends strictly to
\* the left and from every from < len the jump of Ctrl+Right strictly to
\* the right, whatever the characters next to the cursor are.
C31_WordJumpMoves ==
    /\ \A from \in 0..Len(tab.input) :
          /\ move_word_left(tab, from) \in 0..from
          /\ move_word_right(tab, from) \in from..Len(tab.input)
          /\ from > 0 => move_word_left(tab, from) < from
          /\ from < Len(tab.input) => move_word_right(tab, from) > from
    /\ (focus = "tab" /\ ~has_selection(tab) /\ tab.input_visible) =>
          /\ tab.cursor > 0 =>
                on_key_down(tab, KeyEvent("left", None, TRUE, FALSE), EditEnv).t.cursor < tab.cursor
          /\ tab.cursor < Len(tab.input) =>
                on_key_down(tab, KeyEvent("right", None, TRUE, FALSE), EditEnv).t.cursor > tab.cursor

(***************************************************************************)
(* Claims on the walk of the search (checked under SpecSearch).            *)
(***************************************************************************)
\* the name contains the query, both compared without letter case
NameMatches(name, query) == Contains(to_lowercase(name), to_lowercase(query))

\* the walk of generation g takes the next entry of the directory it reads
VisitsEntry(g) ==
    /\ worker[g].pc = "entry"
    /\ worker[g].entries # <<>>
    /\ should_continue(g)
    /\ worker'[g] # worker[g]

SkippedByRules(entry) ==
    IF entry.is_dir THEN should_skip_dir(entry.name, rules)
                    ELSE should_skip_file(entry.name, rules)

\* the step hands a filename match of the entry to push
YieldsFilenameMatch(g, entry) ==
    /\ worker'[g].pc = "push_name"
    /\ worker'[g].path = Append(worker[g].dir, entry.name)

\* the step of push takes SearchResult(path, 0, true) into the batch
PushesFilenameMatch(g) ==
    \E r \in {SearchResult(g, worker[g].path, 0, TRUE)} :
        \/ /\ worker'[g].batch # <<>>
           /\ worker'[g].batch[Len(worker'[g].batch)] = r
        \/ /\ Len(chan'[g]) = Len(chan[g]) + 1
           /\ \E m \in {chan'[g][Len(chan'[g])]} :
                 /\ m.type = "Batch"
                 /\ m.results[Len(m.results)] = r

VisitedNamesYield(kinds) ==
    \A g \in Gens :
        /\ \A entry \in {worker[g].entries[i] : i \in 1..(IF worker[g].entries = <<>> THEN 0 ELSE 1)} :
              ( /\ VisitsEntry(g)
                /\ entry.is_dir \in kinds
                /\ ~SkippedByRules(entry)
                /\ NameMatches(entry.name, worker[g].query) )
              => YieldsFilenameMatch(g, entry)
        /\ ( /\ worker[g].pc = "push_name"
             /\ should_continue(g)
             /\ worker'[g] # worker[g] )
           => PushesFilenameMatch(g)

\* C32: every entry the walk visits, file or directory, whose name contains
\* the query without regard to letter case yields one filename match with
\* line 0 and is_filename true.
C32_EveryMatchingNameYields == [][VisitedNamesYield({TRUE, FALSE})]_vars

(***************************************************************************)
(* Claims on a search with an empty query (checked under SpecSearch).      *)
(***************************************************************************)
\* the latest run_search found an empty query: the current generation has
\* no worker thread
EmptyScan == search_generation > 0 /\ worker[search_generation].pc = "none"

\* C33: run_search with an empty or whitespace-only query clears the
\* results, sets search_pending to false and starts no worker; from then on
\* search_results stays empty and search_pending stays false, whatever
\* messages of earlier scans are still delivered.
C33_EmptyQueryStaysEmpty ==
    EmptyScan =>
        /\ search_results = <<>>
        /\ ~search_pending
        /\ consumer[search_generation] = "none"
        /\ chan[search_generation] = <<>>

\* C33 witness: scan 1 was superseded by a run with an empty query, and the
\* Batch and the Done it sent afterwards have both been received.
C33_Witness ==
    /\ search_generation = 2
    /\ EmptyScan
    /\ worker[1].sent_after = 2
    /\ consumer[1] = "ended"
    /\ search_results = <<>>
    /\ ~search_pending

(***************************************************************************)
(* Claims on the CwdChanged event (checked under SpecOutput).              *)
(***************************************************************************)
\* the path a prompt line "PS <path>>" carries (empty for any other line)
PromptPathOf(line) ==
    IF is_prompt_line(line)
    THEN Trim(SubSeq(Trim(line), Len(PromptPrefix) + 1, Len(Trim(line)) - 1))
    ELSE <<>>

\* the events the lines call for when the tab is in directory cwd, and the
\* directory it is in afterwards
RECURSIVE CwdEvents(_, _, _)
CwdEvents(cwd, acc, lines) ==
    IF lines = <<>> THEN [events |-> acc, cwd |-> cwd]
    ELSE IF PromptPathOf(Head(lines)) # <<>> /\ PromptPathOf(Head(lines)) # cwd
    THEN CwdEvents(PromptPathOf(Head(lines)), Append(acc, PromptPathOf(Head(lines))), Tail(lines))
    ELSE CwdEvents(cwd, acc, Tail(lines))

\* the chunks the claim is looked at with, in every state reached
CwdChunks ==
    OutputChunks \cup
    { <<"P", "S", " ", ">">>,
      <<"P", "S", " ", "a", ">", "\n", "P", "S", " ", "a", ">">>,
      <<"P", "S", " ", "a", ">", "\n", "b", "\n", " ", "P", "S", " ", " ", "b", " ", ">", " ">>,
      <<"P", "S", " ", "b", ">", "\n", "P", "S", " ", "~", ">", "\n", "P", "S", " ", "b", ">">>,
      <<"P", "S", "a", ">">>, <<"P", "S", " ", "a">> }

\* C34: a CwdChanged(path) event is emitted exactly when a processed prompt
\* line carries a non-empty path different from current_path; current_path
\* then equals that path, so that consecutive prompt lines with the same
\* path emit no further event.
C34_CwdChangedOnPathChange ==
    /\ \A chunk \in CwdChunks :
          \E r \in {append_output(tab, chunk, git_repo)} :
          \E want \in {CwdEvents(tab.current_path, <<>>, OutputLines(chunk))} :
              /\ r.emitted = want.events
              /\ r.t.current_path = want.cwd
    /\ emitted # <<>> => tab.current_path = emitted[Len(emitted)]

\* C34 witness: the prompt of directory b has arrived while the tab was in
\* another directory, and the event was emitted.
C34_Witness ==
    /\ emitted = << <<"b">> >>
    /\ tab.current_path = <<"b">>
    /\ append_output(tab, <<"P", "S", " ", "b", ">">>, git_repo).emitted = <<>>
    /\ append_output(tab, <<"P", "S", " ", "a", ">">>, git_repo).emitted = << <<"a">> >>

(***************************************************************************)
(* Claims on the skip rules and on the files left unread (checked under    *)
(* SpecSearch).  Paths are relative to the directory the search starts in. *)
(***************************************************************************)
EqualIgnoringCase(a, b) == to_lowercase(a) = to_lowercase(b)

\* every result there is: shown, in a batch under way, or held by a worker
AllResults ==
    {search_results[i] : i \in 1..Len(search_results)}
    \cup UNION {{worker[g].batch[i] : i \in 1..Len(worker[g].batch)} : g \in Gens}
    \cup UNION {UNION {{chan[g][k].results[i] : i \in 1..Len(chan[g][k].results)}
                       : k \in 1..Len(chan[g])} : g \in Gens}

InSkippedDir(path) ==
    \E k \in 1..(Len(path) - 1) : \E i \in 1..Len(rules.skip_dirs) :
        EqualIgnoringCase(path[k], rules.skip_dirs[i])

IsSkippedFile(path) ==
    /\ path # <<>>
    /\ \E i \in 1..Len(rules.skip_files) :
          EqualIgnoringCase(path[Len(path)], rules.skip_files[i])

\* C35: no search result has a path inside a directory whose name equals,
\* ignoring case, an entry of skip_dirs, nor a path of a file whose name
\* equals, ignoring case, an entry of skip_files, for rules returned by
\* load_rules with names in any letter case.
C35_SkippedNamesYieldNothing ==
    \A r \in AllResults : ~InSkippedDir(r.path) /\ ~IsSkippedFile(r.path)

\* C35 witness: a scan of the tree with the directory "T" and the file "B",
\* both named by the rules in the other letter case, has come to its end
\* with the results of the directory "d" shown.
C35_Witness ==
    /\ fs = TreeSmall
    /\ search_generation = 1
    /\ consumer[1] = "ended"
    /\ should_skip_dir(<<"T">>, rules) /\ should_skip_file(<<"B">>, rules)
    /\ \E i \in 1..Len(search_results) :
          search_results[i].path = << <<"d">>, <<"A", "b">> >>

\* the entry of the tree that a path relative to its root names
RECURSIVE NodesAt(_, _)
NodesAt(node, path) ==
    IF path = <<>> THEN {node}
    ELSE UNION {NodesAt(node.children[i], Tail(path)) :
                   i \in {j \in 1..Len(node.children) : node.children[j].name = Head(path)}}

\* larger than max_file_kb * 1024 bytes, or a zero byte among the first 512
LeftUnread(node) == node.size > rules.max_file_kb * 1024 \/ node.nul

\* the walk of generation g is at the tests of the file it has opened, and
\* goes on to the next entry of the directory
SkipsUnreadFile(g) ==
    ( /\ worker[g].pc = "open"
      /\ worker[g].entry.ok
      /\ LeftUnread(worker[g].entry)
      /\ should_continue(g)
      /\ worker'[g] # worker[g] )
    => worker'[g] = [worker[g] EXCEPT !.pc = "entry"]

ClockNotSetBack(file, now) == \A i \in 1..Len(file) : file[i].last_opened <= now

\* C37: after add_recent(p), p is in the returned list and is its first
\* entry, for every earlier content of the list, including a list that
\* already holds 20 entries and entries whose last-opened second equals the
\* current one.
C37_AddedPathIsFirst ==
    \A path \in RecentPaths, now \in 0..MaxNow :
        ClockNotSetBack(recent_file, now) =>
            \E items \in {add_recent(recent_file, path, now)} :
                /\ items # <<>>
                /\ items[1].path = path

(***************************************************************************)
(* Claims on the reader of the pty (checked under SpecReaderFair).         *)
(***************************************************************************)
IsPrefixOf(s, t) == Len(s) <= Len(t) /\ s = SubSeq(t, 1, Len(s))

\* what has been applied and what waits in the channel is what was sent,
\* in the order it was sent
AppliedInOrder ==
    /\ reader.view /\ reader.consumer = "running" => reader.applied \o reader.chan = reader.sent
    /\ reader.view /\ reader.consumer = "ended" => reader.applied = reader.sent
    /\ IsPrefixOf(reader.applied, reader.sent)

\* a step applies at most one chunk, the oldest of the channel
OneAtATime ==
    reader'.applied # reader.applied =>
        /\ reader.chan # <<>>
        /\ reader'.applied = Append(reader.applied, Head(reader.chan))
        /\ tab' = append_output(tab, Head(reader.chan), git_repo).t

NothingAfterTheEnd ==
    /\ reader.pc = "ended" =>
          /\ reader'.pc = "ended"
          /\ reader'.sent = reader.sent
          /\ reader'.chan \in {reader.chan} \cup {Tail(reader.chan) : i \in 1..Min(1, Len(reader.chan))}
    /\ reader.consumer = "ended" =>
          /\ reader'.consumer = "ended"
          /\ tab' = tab
          /\ reader'.applied = reader.applied

\* C38: output chunks are applied to the blocks one at a time, in the order
\* the reader thread read them and each exactly once; after the reader sees
\* end-of-stream or an I/O error it sends nothing more, the consumer loop
\* ends, and the blocks keep their last state.
C38_ChunksInOrderThenEnd ==
    /\ []AppliedInOrder
    /\ [][OneAtATime /\ NothingAfterTheEnd]_vars
    /\ (reader.pc = "ended") ~> (reader.consumer = "ended")

\* C38 witness: three chunks were read, the read after them failed with
\* output still to come, every chunk has been applied and the loop has
\* ended.
C38_Witness ==
    /\ reader.view
    /\ reader.pc = "ended"
    /\ reader.consumer = "ended"
    /\ stream # <<>>
    /\ Len(reader.sent) = 3
    /\ reader.applied = reader.sent
    /\ tab.blocks # <<>>

(***************************************************************************)
(* Claims on the history menu (checked under SpecMenu).                    *)
(***************************************************************************)
MenuWellFormed(t) ==
    t.history_open =>
        /\ t.history_items # <<>>
        /\ Len(t.history_items) <= HistoryMenuSize
        /\ t.history_index < Len(t.history_items)

\* the tab after the arrow key has been handled
AfterArrow(key) == on_key_down(tab, Key(key), EditEnv).t

\* C39: in every state reachable by key events on the command input, if the
\* history menu is open then history_items is non-empty, holds at most 8
\* entries and history_index < len(history_items); stepping down from index
\* 0 closes the menu and stepping up never goes past the last item.
C39_HistoryMenuWellFormed ==
    /\ MenuWellFormed(tab)
    /\ tab.history_open =>
          /\ \E down \in {AfterArrow("down")} :
                IF tab.history_index = 0
                THEN ~down.history_open
                ELSE /\ down.history_open
                     /\ down.history_index = tab.history_index - 1
          /\ \E up \in {AfterArrow("up")} :
                /\ up.history_open
                /\ up.history_items = tab.history_items
                /\ up.history_index =
                      IF tab.history_index + 1 < Len(tab.history_items)
                      THEN tab.history_index + 1 ELSE tab.history_index

\* C39 witness: the menu is open on a log with more than eight matching
\* commands, and the Up key has stepped to the last of the eight items.
C39_Witness ==
    /\ tab.history_open
    /\ Len(HistoryMatches(tab.history, prefix_at_cursor(tab))) > HistoryMenuSize
    /\ Len(tab.history_items) = HistoryMenuSize
    /\ tab.history_index = HistoryMenuSize - 1

====
